---- MODULE Spec2Model ----
(***************************************************************************)
(* A model of the event primitive (src/src/emitter.ts, events.ts) and of   *)
(* the TCP connection and the TCP server built on it (socket.ts,           *)
(* concatenated in src/src/inet.ts).                                       *)
(*                                                                         *)
(* The emitter's Map<string, EventListener[]> is a function whose DOMAIN   *)
(* is the set of keys the Map holds; Map.has(k) is k \in DOMAIN listeners. *)
(* emit() runs listeners synchronously, and a listener may call back into  *)
(* the emitter, so emit is a loop with one step per loop iteration and a   *)
(* stack of dispatch frames; every other operation is one atomic action.   *)
(* Under Spec the listeners make no call into the emitter: every call      *)
(* comes from outside code, between two emit() calls.                      *)
(*                                                                         *)
(* Further specifications over the same variables: SpecWebhook is the HTTP *)
(* endpoint (src/src/webhook.ts), SpecProtocol the binary protocol         *)
(* (protocol.ts: BufferReader, varints, serialize, deserialize) and        *)
(* SpecEnvelope the message envelope (messages.ts: createMessage,          *)
(* parseMessage, sign).  SpecReentrant is the emitter with listeners that  *)
(* call back into it, SpecBackpressure a connection that only writes and   *)
(* drains, SpecPublish the chunk loop of publishWebhookMessage and         *)
(* SpecEvent one event object (events.ts: AbstractEvent).  Each leaves the *)
(* other parts of the state inert.                                         *)
(***************************************************************************)
EXTENDS Integers, Sequences, FiniteSets, TLC

VARIABLES
  listeners,      \* EventEmitter.#listeners : event name -> array of subscriptions
  maxListeners,   \* EventEmitter.#maxListeners
  disposed,       \* EventEmitter.#disposed
  called,         \* the event objects whose #state.calls is > 0
  stack,          \* the emit() calls in progress, innermost last
  last,           \* the last call (or transport callback) and its outcome
  \* --- TCPSocket, an EventEmitter with a net.Socket behind it
  kind,           \* constructor branch: "outbound" (SocketAddr) or "accepted" (net.Socket)
  sock,           \* TCPSocket.#state : [closed, flushing, disposed]
  connecting,     \* connect() was called and the stream has not answered
  wired,          \* the connect callback attached the 'drain' and 'data' handlers
  ending,         \* handler.end(cb): "no", "pending" (cb not yet run), "done"
  needDrain,      \* the stream refused a write and has not drained since
  source,         \* TCPSocket.#source: "none" (never assigned), "active", "cancelled"
  token,          \* the token given to the constructor: "active" or "cancelled"
  closures,       \* number of drain closures #write has created
  endCalls,       \* calls of handler.end
  closeEmits,     \* calls of super.emit('close', null)
  cancelCalls,    \* completed calls of this.#source.cancel()
  uncaught,       \* a transport callback threw
  userDisposed,   \* dispose() was called by outside code
  emitted,        \* the emit() calls of the last step, each with the listeners it ran
  audience,       \* the 'close' listeners registered when dispose() found the connection open
  arrived,        \* the chunks the stream received, in arrival order
  surfaced,       \* the payloads of the emit('data', ...) calls, in order
  \* --- TCPServer, an EventEmitter with a net.Server behind it
  srv,            \* TCPServer.#state : [closed, disposed, listening]
  handler,        \* the net.Server: "idle", "binding", "listening", "closing", "closed"
  settings,       \* TCPServer.#settings : setting name -> value
  clients,        \* TCPServer.#clients in insertion order: [addr, conn]
  conns,          \* the TCPSocket objects the server created, by number
  srvToken,       \* the token given to the server: "active" or "cancelled"
  terminated,     \* raw streams the accept callback ended and destroyed
  wrote,          \* the last #write of the server: the connection written to (0: none)
  \* --- WebhookServer, an EventEmitter with an http.Server behind it
  hook,           \* WebhookServer.#state : [paused, closed, disposed, listening]
  hookOpts,       \* WebhookServer.#options : [lazy, deadline, maxMessageSize]
  http,           \* the http.Server: "idle", "binding", "failed", "listening", "closing", "closed"
  timer,          \* the setTimeout of #init: "none", "armed", "fired"
  hookLog,        \* the events the endpoint emitted outside request handling, in order
  req,            \* the request being handled or, once answered, the last one (method "-": none)
  served,         \* the status codes of the responses sent, oldest first
  \* --- the binary protocol: one BufferWriter and one BufferReader
  input,          \* the call that wrote: [op, value]
  writer,         \* BufferWriter.#buffers, concatenated
  reader,         \* the BufferReader: [open, buffer, cursor]; whole: it holds all that was written
  result,         \* the last call on the reader and its outcome
  \* --- one message envelope on its way from createMessage to parseMessage
  marshals,       \* Marshalling.encode accepts the payloads (it throws otherwise)
  sent,           \* the arguments of createMessage: [topic, payload, headers, now]
  fields,         \* the six fields of the frame, as written or as altered
  tampered,       \* the field altered after createMessage (0: none)
  parsed,         \* the outcome of parseMessage
  \* --- what the listeners of an emitter did, kept to state properties of the past
  regs,           \* the subscriptions addListener created so far
  runs,           \* callback -> times its subscription was invoked (MaxRuns: that or more)
  during,         \* for each emit() in progress, the operations called since it started
  \* --- one publishWebhookMessage call over node:http
  pub,            \* [pc, buffer, cursor, i, chunks]: the reader, the loop index, the req.write calls
  \* --- one event object (AbstractEvent) on its own
  ev              \* [once, cancellable, canceled, disposed, calls, invoked, results, pending]

evars == <<listeners, maxListeners, disposed, called, stack, last>>
svarsButEmitted ==
  <<kind, sock, connecting, wired, ending, needDrain, source, token, closures,
    endCalls, closeEmits, cancelCalls, uncaught, userDisposed>>
svars == <<svarsButEmitted, emitted>>
hvars == <<audience, arrived, surfaced>>
tvars == <<srv, handler, settings, clients, conns, srvToken, terminated, wrote>>
wvars == <<hook, hookOpts, http, timer, hookLog, req, served>>
pvars == <<input, writer, reader, result>>
mvars == <<marshals, sent, fields, tampered, parsed>>
rvars == <<regs, runs, during>>
bvars == <<pub>>
avars == <<ev>>
yvars == <<rvars, bvars, avars>>
xvars == <<wvars, pvars, mvars, yvars>>

\* ------------------------------------------------------------------ bounds
MaxOption == 2        \* largest maxListeners value a caller passes
MaxRefused == 2       \* writes the stream refuses over a connection's life
MaxChunks == 2        \* chunks a connection receives
MaxConns == 1         \* connections a server accepts over its life
MaxServerRefused == 1 \* writes of a server that the streams refuse

\* ------------------------------------------------------- program constants
DefaultMaxListeners == 32
AF_INET == 2
AF_INET6 == 10

\* ------------------------------------------------------------------ inputs
\* A callback is a value with an identity: a bare function or an event
\* object (an instance of AbstractEvent).
Fn(id) == [kind |-> "function", id |-> id]
Ev(id) == [kind |-> "event", id |-> id]
NoCallback == [kind |-> "none", id |-> 0]

EventNames == {"a", "b"}
Functions == {Fn(1), Fn(2)}
\* Two event objects, both built around the function Fn(1).
EventObjects == {Ev(1), Ev(2)}
Callbacks == Functions \cup EventObjects
\* The registrations outside code asks for: anything on "a", one persistent
\* listener on "b".
Registrations ==
  {r \in EventNames \X Callbacks \X BOOLEAN : r[1] = "a" \/ (r[2] = Fn(2) /\ ~r[3])}

\* callback instanceof AbstractEvent
IsEvent(c) == c.kind = "event"

\* AbstractEvent.$inspect().callback
Inspect(e) == Fn(1)

\* AbstractEvent.#once, set by the constructor from _options.once: Ev(1) was
\* built with once: true, Ev(2) with the default.
EvOnce(e) == e = Ev(1)

\* The function a subscription's callback finally runs.
Underlying(c) == IF IsEvent(c) THEN Inspect(c) ELSE c

\* The record of a call: what was called, on what, and how it ended
\* ("raise": it threw; "pending": emit() is still dispatching).
Call(op, event, callback, res) ==
  [op |-> op, event |-> event, callback |-> callback, res |-> res]

\* ---------------------------------------------------------------- helpers
EmptyMap == [x \in {} |-> <<>>]
SetKey(m, k, v) == [x \in (DOMAIN m) \cup {k} |-> IF x = k THEN v ELSE m[x]]
DelKey(m, k) == [x \in (DOMAIN m) \ {k} |-> m[x]]

RECURSIVE FilterIdxZeroBased(_, _, _)
\* FilterIdx with the recorded indexes read one position late
FilterIdxZeroBased(s, del, k) ==
  IF k > Len(s) THEN <<>>
  ELSE (IF (k - 1) \in del THEN <<>> ELSE <<s[k]>>) \o FilterIdxZeroBased(s, del, k + 1)

RECURSIVE FilterIdx(_, _, _)
\* listeners.filter((_, i) => !deleteIndexes.includes(i))
FilterIdx(s, del, k) ==
  IF k > Len(s) THEN <<>>
  ELSE (IF k \in del THEN <<>> ELSE <<s[k]>>) \o FilterIdx(s, del, k + 1)

RECURSIVE FindIndex(_, _, _)
\* prev.findIndex(item => item.callback === callback); 0 when there is none
FindIndex(s, callback, k) ==
  IF k > Len(s) THEN 0
  ELSE IF s[k].callback = callback THEN k
  ELSE FindIndex(s, callback, k + 1)

RemoveAt(s, k) == [j \in 1..(Len(s) - 1) |-> IF j < k THEN s[j] ELSE s[j + 1]]

\* The subscriptions emit() keeps: those not registered with once
Persistent(subs) == SelectSeq(subs, LAMBDA x : ~x.once)
CallbacksOf(subs) == [k \in DOMAIN subs |-> subs[k].callback]

\* The constructor's `_options?.maxListeners || 32`
InitialMax(opt) == IF opt = 0 THEN DefaultMaxListeners ELSE opt

\* SameCallback without the unwrapping of event objects
SameCallbackByIdentity(item, callback) == item.callback = callback

\* The predicate of prev.some(...) in addListener
SameCallback(item, callback) ==
  IF IsEvent(item.callback)
  THEN IF IsEvent(callback)
       THEN item.callback = callback
       ELSE Inspect(item.callback) = callback
  ELSE IF IsEvent(callback)
       THEN item.callback = Inspect(callback)
       ELSE item.callback = callback

IsDuplicate(prev, callback) == \E k \in 1..Len(prev) : SameCallback(prev[k], callback)

\* AtCapacity with > for >=
AtCapacityStrict(prev, max) == Len(prev) > max

\* prev.length >= this.#maxListeners
AtCapacity(prev, max) == Len(prev) >= max

\* ------------------------------------------------------- dispatch frames
Top == stack[Len(stack)]
InCallback == stack # <<>> /\ Top.pc = "cb"
\* A call is made by outside code or by a listener that is running.
CanCall == stack = <<>> \/ InCallback

\* The array a frame's `listeners` constant refers to: the Map's array while
\* the Map still holds that very array, else the array as it was left.
FrameArr(f) == IF f.live THEN listeners[f.name] ELSE f.arr

\* What a call made by a running listener does to the frames below it: the
\* frames whose array the Map drops keep the array, and every frame sees that
\* the emitter was changed under it.
Reenter(stk, dropped, changed) ==
  [k \in DOMAIN stk |->
    LET f == stk[k]
        g == IF f.live /\ f.name \in dropped
             THEN [f EXCEPT !.live = FALSE, !.arr = listeners[f.name]]
             ELSE f
    IN IF changed THEN [g EXCEPT !.mut = TRUE] ELSE g]

\* ------------------------------------------------------------------- Init
\* A plain EventEmitter has no socket part.
NoSocket ==
  /\ kind = "none"
  /\ sock = [closed |-> FALSE, flushing |-> FALSE, disposed |-> FALSE]
  /\ connecting = FALSE
  /\ wired = FALSE
  /\ ending = "no"
  /\ needDrain = FALSE
  /\ source = "none"
  /\ token = "active"
  /\ closures = 0
  /\ endCalls = 0
  /\ closeEmits = 0
  /\ cancelCalls = 0
  /\ uncaught = FALSE
  /\ userDisposed = FALSE
  /\ emitted = <<>>
  /\ audience = <<>>
  /\ arrived = <<>>
  /\ surfaced = <<>>

\* No server: the part of the state that belongs to TCPServer stays inert.
NoServer ==
  /\ srv = [closed |-> FALSE, disposed |-> FALSE, listening |-> FALSE]
  /\ handler = "idle"
  /\ settings = EmptyMap
  /\ clients = <<>>
  /\ conns = <<>>
  /\ srvToken = "active"
  /\ terminated = 0
  /\ wrote = [conn |-> 0, masked |-> FALSE]

\* No request: the slot of the request being handled is empty.
NoRequest ==
  [method |-> "-", path |-> "-", body |-> 0, pc |-> "done", parses |-> FALSE,
   status |-> 0, events |-> <<>>, raised |-> "-",
   at |-> [listening |-> FALSE, disposed |-> FALSE]]

\* No webhook endpoint: the part of the state that belongs to it stays inert.
NoWebhook ==
  /\ hook = [paused |-> FALSE, closed |-> FALSE, disposed |-> FALSE, listening |-> FALSE]
  /\ hookOpts = [lazy |-> TRUE, deadline |-> FALSE, maxMessageSize |-> [defined |-> FALSE, bytes |-> 0]]
  /\ http = "idle"
  /\ timer = "none"
  /\ hookLog = <<>>
  /\ req = NoRequest
  /\ served = <<>>

\* No codec call yet: a fresh BufferWriter and no BufferReader.
NoCodec ==
  /\ input = [op |-> "-", value |-> [t |-> "null"]]
  /\ writer = <<>>
  /\ reader = [open |-> FALSE, whole |-> FALSE, buffer |-> <<>>, cursor |-> 0]
  /\ result = [op |-> "-", from |-> 0, n |-> 0, err |-> "-", value |-> [t |-> "null"],
               chunk |-> <<>>]

\* No message: nothing was created, altered or parsed.
NoEnvelope ==
  /\ marshals = FALSE
  /\ sent = [topic |-> <<>>, payload |-> [t |-> "null"], headers |-> <<>>, now |-> 0,
             key |-> FALSE]
  /\ fields = <<>>
  /\ tampered = 0
  /\ parsed = [done |-> FALSE, err |-> "-", topic |-> [t |-> "null"],
               headers |-> [t |-> "null"], payload |-> [t |-> "null"]]

\* No record is kept of what listeners did.
NoHistory ==
  /\ regs = {}
  /\ runs = <<>>
  /\ during = <<>>

\* publishWebhookMessage was not called.
NoPublish == pub = [pc |-> "idle", buffer |-> <<>>, cursor |-> 0, i |-> 0, chunks |-> <<>>]

\* An event object nothing was done with.
NoEventObject ==
  ev = [once |-> FALSE, cancellable |-> FALSE, canceled |-> FALSE, disposed |-> FALSE,
        calls |-> 0, invoked |-> 0, results |-> <<>>, pending |-> <<>>]

NoMore == NoHistory /\ NoPublish /\ NoEventObject

NoExtras ==
  /\ NoWebhook
  /\ NoCodec
  /\ NoEnvelope
  /\ NoMore

Init ==
  /\ listeners = EmptyMap
  /\ \E opt \in 0..MaxOption : maxListeners = InitialMax(opt)
  /\ disposed = FALSE
  /\ called = {}
  /\ stack = <<>>
  /\ last = Call("none", "-", NoCallback, "-")
  /\ NoSocket
  /\ NoServer
  /\ NoExtras

\* ---------------------------------------------------------------- actions
\* `if(this.#disposed) throw void 0;` at the head of every mutator
RaiseDisposed(op, event, callback) ==
  /\ last' = Call(op, event, callback, "raise")
  /\ UNCHANGED <<listeners, maxListeners, disposed, called, stack>>

SetMaxListeners(value) ==
  IF disposed
  THEN RaiseDisposed("setMaxListeners", "-", NoCallback)
  ELSE /\ maxListeners' = value
       /\ last' = Call("setMaxListeners", "-", NoCallback, "ok")
       /\ stack' = Reenter(stack, {}, maxListeners # value)
       /\ UNCHANGED <<listeners, disposed, called>>

\* addListener past the disposed check: the Map it leaves and how it ends
AddResult(ls, max, event, callback, once) ==
  LET withKey == IF event \in DOMAIN ls THEN ls ELSE SetKey(ls, event, <<>>)
      prev == withKey[event]
  IN IF IsDuplicate(prev, callback)
     THEN [listeners |-> withKey, res |-> "ok"]
     ELSE IF AtCapacity(prev, max)
     THEN [listeners |-> withKey, res |-> "raise"]
     ELSE [listeners |-> SetKey(withKey, event,
                           Append(prev, [callback |-> callback, once |-> once])),
           res |-> "ok"]

AddListener(event, callback, once) ==
  IF disposed
  THEN RaiseDisposed("addListener", event, callback)
  ELSE LET r == AddResult(listeners, maxListeners, event, callback, once)
       IN /\ listeners' = r.listeners
          /\ last' = Call("addListener", event, callback, r.res)
          /\ stack' = Reenter(stack, {}, listeners' # listeners)
          /\ UNCHANGED <<maxListeners, disposed, called>>

\* removeListener past the disposed check
RemoveResult(ls, event, callback) ==
  IF event \notin DOMAIN ls
  THEN [listeners |-> ls, res |-> "false"]
  ELSE LET prev == ls[event]
           index == FindIndex(prev, callback, 1)
       IN IF index = 0
          THEN [listeners |-> ls, res |-> "false"]
          ELSE [listeners |-> SetKey(ls, event, RemoveAt(prev, index)), res |-> "true"]

RemoveListener(event, callback) ==
  IF disposed
  THEN RaiseDisposed("removeListener", event, callback)
  ELSE LET r == RemoveResult(listeners, event, callback)
       IN /\ listeners' = r.listeners
          /\ last' = Call("removeListener", event, callback, r.res)
          /\ stack' = Reenter(stack, {}, listeners' # listeners)
          /\ UNCHANGED <<maxListeners, disposed, called>>

RemoveManyListeners(event) ==
  IF disposed
  THEN RaiseDisposed("removeManyListeners", event, NoCallback)
  ELSE /\ listeners' = DelKey(listeners, event)
       /\ last' = Call("removeManyListeners", event, NoCallback,
                       IF event \in DOMAIN listeners THEN "true" ELSE "false")
       /\ stack' = Reenter(stack, {event}, listeners' # listeners)
       /\ UNCHANGED <<maxListeners, disposed, called>>

RemoveAllListeners ==
  IF disposed
  THEN RaiseDisposed("removeAllListeners", "-", NoCallback)
  ELSE /\ listeners' = EmptyMap
       /\ last' = Call("removeAllListeners", "-", NoCallback, "ok")
       /\ stack' = Reenter(stack, DOMAIN listeners, listeners' # listeners)
       /\ UNCHANGED <<maxListeners, disposed, called>>

\* Dispose that sets the flag and keeps the subscriptions
DisposeKeepsListeners ==
  /\ disposed' = TRUE
  /\ last' = Call("dispose", "-", NoCallback, "ok")
  /\ UNCHANGED <<listeners, maxListeners, called, stack>>

Dispose ==
  /\ IF disposed
     THEN UNCHANGED <<listeners, disposed, stack>>
     ELSE /\ listeners' = EmptyMap
          /\ disposed' = TRUE
          /\ stack' = Reenter(stack, DOMAIN listeners, TRUE)
  /\ last' = Call("dispose", "-", NoCallback, "ok")
  /\ UNCHANGED <<maxListeners, called>>

\* emit(), up to the loop: `if(!this.#listeners.has(en)) return false;`
Emit(event) ==
  /\ IF event \notin DOMAIN listeners
     THEN /\ last' = Call("emit", event, NoCallback, "false")
          /\ UNCHANGED stack
     ELSE /\ stack' = Append(stack,
                        [name |-> event, live |-> TRUE, arr |-> <<>>, i |-> 1,
                         del |-> {}, once |-> FALSE, pc |-> "loop",
                         start |-> listeners[event], log |-> <<>>, mut |-> FALSE])
          /\ last' = Call("emit", event, NoCallback, "pending")
  /\ UNCHANGED <<listeners, maxListeners, disposed, called>>

\* AbstractEvent.dispatch: whether the callback is run
Runs(callback) ==
  IF IsEvent(callback)
  THEN ~(EvOnce(callback) /\ callback \in called)
  ELSE TRUE

\* One loop iteration up to the call of the listener inside
\* callable.dispatch(p, t); dispatch returns at once for a once-event object
\* that was called before.
EmitDispatch ==
  /\ stack # <<>>
  /\ Top.pc = "loop"
  /\ Top.i <= Len(FrameArr(Top))
  /\ LET sub == FrameArr(Top)[Top.i]
         ran == Runs(sub.callback)
     IN stack' = [stack EXCEPT ![Len(stack)] =
                    [@ EXCEPT !.pc = IF ran THEN "cb" ELSE "after",
                              !.once = sub.once,
                              !.log = Append(@, [callback |-> sub.callback, ran |-> ran])]]
  /\ UNCHANGED <<listeners, maxListeners, disposed, called, last>>

\* EmitAfter that steps the loop index twice
EmitAfterSkipsNext ==
  /\ stack # <<>>
  /\ Top.pc \in {"cb", "after"}
  /\ stack' = [stack EXCEPT ![Len(stack)] =
                 [@ EXCEPT !.pc = "loop",
                           !.del = IF Top.once THEN Top.del \cup {Top.i} ELSE Top.del,
                           !.i = Top.i + 2]]
  /\ UNCHANGED <<listeners, maxListeners, disposed, called, last>>

\* The listener returns: dispatch's `this.#state.calls++`, then emit's
\* `if(once) deleteIndexes.push(i)` and the loop's `i++`.
EmitAfter ==
  /\ stack # <<>>
  /\ Top.pc \in {"cb", "after"}
  /\ LET f == Top
         cb == f.log[Len(f.log)].callback
     IN /\ stack' = [stack EXCEPT ![Len(stack)] =
                       [f EXCEPT !.pc = "loop",
                                 !.del = IF f.once THEN f.del \cup {f.i} ELSE f.del,
                                 !.i = f.i + 1]]
        /\ called' = IF f.pc = "cb" /\ IsEvent(cb)
                     THEN called \cup {cb}
                     ELSE called
  /\ UNCHANGED <<listeners, maxListeners, disposed, last>>

\* The loop is over: the batched removal of the once-subscriptions, and
\* `return true`.
EmitEnd ==
  /\ stack # <<>>
  /\ Top.pc = "loop"
  /\ Top.i > Len(FrameArr(Top))
  /\ LET f == Top
         rest == SubSeq(stack, 1, Len(stack) - 1)
     IN /\ IF f.del # {}
           THEN /\ listeners' = SetKey(listeners, f.name, FilterIdx(FrameArr(f), f.del, 1))
                /\ stack' = Reenter(rest, {f.name} \cap DOMAIN listeners, TRUE)
           ELSE /\ listeners' = listeners
                /\ stack' = rest
        /\ last' = Call("emit", f.name, NoCallback, "true")
  /\ UNCHANGED <<maxListeners, disposed, called>>

vars == <<evars, svars, hvars, tvars, xvars>>

\* Outside code calls between two emit() calls; a plain emitter has no
\* socket part to change.
Next ==
  \/ (stack = <<>> /\ UNCHANGED <<svars, hvars, tvars, xvars>> /\ \E v \in 0..MaxOption : SetMaxListeners(v))
  \/ (stack = <<>> /\ UNCHANGED <<svars, hvars, tvars, xvars>> /\ \E r \in Registrations : AddListener(r[1], r[2], r[3]))
  \/ (stack = <<>> /\ UNCHANGED <<svars, hvars, tvars, xvars>> /\ \E r \in Registrations : RemoveListener(r[1], r[2]))
  \/ (stack = <<>> /\ UNCHANGED <<svars, hvars, tvars, xvars>> /\ \E n \in EventNames : RemoveManyListeners(n))
  \/ (stack = <<>> /\ UNCHANGED <<svars, hvars, tvars, xvars>> /\ RemoveAllListeners)
  \/ (stack = <<>> /\ UNCHANGED <<svars, hvars, tvars, xvars>> /\ Dispose)
  \/ (stack = <<>> /\ UNCHANGED <<svars, hvars, tvars, xvars>> /\ \E n \in EventNames : Emit(n))
  \/ (UNCHANGED <<svars, hvars, tvars, xvars>> /\ EmitDispatch)
  \/ (UNCHANGED <<svars, hvars, tvars, xvars>> /\ EmitAfter)
  \/ (UNCHANGED <<svars, hvars, tvars, xvars>> /\ EmitEnd)

Spec == Init /\ [][Next]_vars

\* ---------------------------------------------------------------- TCPSocket
\* The closure `() => { this.#state.flushing = true; super.emit('flushing', null); }`
\* that #write creates anew for every refused write.
Closure(id) == [kind |-> "drainClosure", id |-> id]
IsClosure(c) == c.kind = "drainClosure"

\* What outside code listens to on a connection.
SocketEvents == {"close", "flushing"}
SocketCallbacks == {Fn(1)}

\* emit() with listeners that make no call into the emitter, in one step:
\* the Map it leaves, its result, and the callbacks it dispatched to.
EmitPlain(ls, event) ==
  IF event \notin DOMAIN ls
  THEN [listeners |-> ls, res |-> FALSE, ran |-> <<>>]
  ELSE [listeners |-> IF \E k \in 1..Len(ls[event]) : ls[event][k].once
                      THEN SetKey(ls, event, Persistent(ls[event]))
                      ELSE ls,
        res |-> TRUE,
        ran |-> CallbacksOf(ls[event])]

RECURSIVE DrainLoop(_, _, _)
\* The loop of emit('drain') from index k on: a drain closure sets flushing
\* and emits 'flushing'. st = [listeners, flushing, emitted]
DrainLoop(subs, k, st) ==
  IF k > Len(subs) THEN st
  ELSE IF IsClosure(subs[k].callback)
  THEN LET r == EmitPlain(st.listeners, "flushing")
       IN DrainLoop(subs, k + 1,
                    [listeners |-> r.listeners,
                     flushing |-> TRUE,
                     emitted |-> Append(st.emitted, [event |-> "flushing", ran |-> r.ran])])
  ELSE DrainLoop(subs, k + 1, st)

\* super.emit('drain', null)
EmitDrain(ls, flushing) ==
  IF "drain" \notin DOMAIN ls
  THEN [listeners |-> ls, flushing |-> flushing,
        emitted |-> <<[event |-> "drain", ran |-> <<>>]>>]
  ELSE LET subs == ls["drain"]
           st == DrainLoop(subs, 1,
                   [listeners |-> ls, flushing |-> flushing,
                    emitted |-> <<[event |-> "drain", ran |-> CallbacksOf(subs)]>>])
       IN IF \E k \in 1..Len(subs) : subs[k].once
          THEN [st EXCEPT !.listeners = SetKey(st.listeners, "drain", Persistent(subs))]
          ELSE st

\* The part of the connection that close() and dispose() work on.
Here ==
  [listeners |-> listeners, disposed |-> disposed, sock |-> sock,
   ending |-> ending, endCalls |-> endCalls]

Assign(st) ==
  /\ listeners' = st.listeners
  /\ disposed' = st.disposed
  /\ sock' = st.sock
  /\ ending' = st.ending
  /\ endCalls' = st.endCalls

\* close() past #ensureNotDisposed, with no test of #state.closed
CloseResultUnguarded(st) ==
  [st EXCEPT !.sock.closed = TRUE, !.ending = "pending", !.endCalls = st.endCalls + 1]

\* close() past #ensureNotDisposed
CloseResult(st) ==
  IF st.sock.closed
  THEN st
  ELSE [st EXCEPT !.sock.closed = TRUE, !.ending = "pending", !.endCalls = st.endCalls + 1]

\* dispose() that sets the disposed mark and never calls close()
DisposeResultSkipsClose(st) ==
  LET e == IF st.disposed
           THEN st
           ELSE [st EXCEPT !.listeners = EmptyMap, !.disposed = TRUE]
  IN [e EXCEPT !.sock.disposed = TRUE]

\* dispose(): EventEmitter.dispose(), then close() and the disposed mark
DisposeResult(st) ==
  LET e == IF st.disposed
           THEN st
           ELSE [st EXCEPT !.listeners = EmptyMap, !.disposed = TRUE]
  IN IF e.sock.disposed
     THEN e
     ELSE [CloseResult(e) EXCEPT !.sock.disposed = TRUE]

\* #ensureNotDisposed() throws
RejectDisposed(op, event, callback) ==
  /\ last' = Call(op, event, callback, "ERR_RESOURCE_DISPOSED")
  /\ emitted' = <<>>
  /\ UNCHANGED <<listeners, maxListeners, disposed, called, stack>>
  /\ UNCHANGED <<kind, sock, connecting, wired, ending, needDrain, source, token,
                 closures, endCalls, closeEmits, cancelCalls, uncaught, userDisposed>>

SockInit ==
  /\ kind \in {"outbound", "accepted"}
  /\ source = IF kind = "outbound" THEN "active" ELSE "none"
  /\ listeners = EmptyMap
  /\ maxListeners = InitialMax(0)
  /\ disposed = FALSE
  /\ called = {}
  /\ stack = <<>>
  /\ last = Call("none", "-", NoCallback, "-")
  /\ sock = [closed |-> FALSE, flushing |-> FALSE, disposed |-> FALSE]
  /\ connecting = FALSE
  /\ wired = FALSE
  /\ ending = "no"
  /\ needDrain = FALSE
  /\ token = "active"
  /\ closures = 0
  /\ endCalls = 0
  /\ closeEmits = 0
  /\ cancelCalls = 0
  /\ uncaught = FALSE
  /\ userDisposed = FALSE
  /\ emitted = <<>>
  /\ audience = <<>>
  /\ arrived = <<>>
  /\ surfaced = <<>>
  /\ NoServer
  /\ NoExtras

\* connect(): no #ensureNotDisposed; the promise settles later
SockConnect ==
  /\ connecting' = TRUE
  /\ last' = Call("connect", "-", NoCallback, "pending")
  /\ emitted' = <<>>
  /\ UNCHANGED <<listeners, maxListeners, disposed, called, stack>>
  /\ UNCHANGED <<kind, sock, wired, ending, needDrain, source, token, closures,
                 endCalls, closeEmits, cancelCalls, uncaught, userDisposed>>

\* The stream connected (it does not once the abort signal destroyed it):
\* the callback passed to handler.connect
SockConnected ==
  /\ connecting
  /\ source # "cancelled"
  /\ LET r == EmitPlain(listeners, "flushing")
     IN /\ listeners' = r.listeners
        /\ emitted' = <<[event |-> "flushing", ran |-> r.ran]>>
  /\ connecting' = FALSE
  /\ sock' = [sock EXCEPT !.flushing = TRUE]
  /\ wired' = TRUE
  /\ last' = Call("connected", "-", NoCallback, "ok")
  /\ UNCHANGED <<maxListeners, disposed, called, stack>>
  /\ UNCHANGED <<kind, ending, needDrain, source, token, closures, endCalls,
                 closeEmits, cancelCalls, uncaught, userDisposed>>

\* send(value) and write(value): #ensureNotDisposed, then #write; `accepted`
\* is what handler.write(payload) returns
SockWrite(op, accepted) ==
  IF sock.disposed
  THEN RejectDisposed(op, "-", NoCallback)
  ELSE /\ IF accepted
          THEN /\ last' = Call(op, "-", NoCallback, "true")
               /\ UNCHANGED <<listeners, sock, closures, needDrain>>
          ELSE /\ sock' = [sock EXCEPT !.flushing = FALSE]
               /\ closures' = closures + 1
               /\ needDrain' = TRUE
               /\ IF disposed
                  THEN /\ listeners' = listeners
                       /\ last' = Call(op, "-", NoCallback, "raise")
                  ELSE LET r == AddResult(listeners, maxListeners, "drain",
                                          Closure(closures + 1), TRUE)
                       IN /\ listeners' = r.listeners
                          /\ last' = Call(op, "-", NoCallback,
                                          IF r.res = "raise" THEN "raise" ELSE "false")
       /\ emitted' = <<>>
       /\ UNCHANGED <<maxListeners, disposed, called, stack>>
       /\ UNCHANGED <<kind, connecting, wired, ending, source, token, endCalls,
                      closeEmits, cancelCalls, uncaught, userDisposed>>

\* on(event, callback) and once(event, callback)
SockOn(op, event, callback) ==
  IF sock.disposed
  THEN RejectDisposed(op, event, callback)
  ELSE /\ IF disposed
          THEN /\ listeners' = listeners
               /\ last' = Call(op, event, callback, "raise")
          ELSE LET r == AddResult(listeners, maxListeners, event, callback, op = "once")
               IN /\ listeners' = r.listeners
                  /\ last' = Call(op, event, callback, r.res)
       /\ emitted' = <<>>
       /\ UNCHANGED <<maxListeners, disposed, called, stack>>
       /\ UNCHANGED svarsButEmitted

\* off(event, callback)
SockOff(event, callback) ==
  IF sock.disposed
  THEN RejectDisposed("off", event, callback)
  ELSE /\ IF disposed
          THEN /\ listeners' = listeners
               /\ last' = Call("off", event, callback, "raise")
          ELSE /\ listeners' = RemoveResult(listeners, event, callback).listeners
               /\ last' = Call("off", event, callback, "ok")
       /\ emitted' = <<>>
       /\ UNCHANGED <<maxListeners, disposed, called, stack>>
       /\ UNCHANGED svarsButEmitted

\* close()
SockClose ==
  IF sock.disposed
  THEN RejectDisposed("close", "-", NoCallback)
  ELSE /\ Assign(CloseResult(Here))
       /\ last' = Call("close", "-", NoCallback, "ok")
       /\ emitted' = <<>>
       /\ UNCHANGED <<maxListeners, called, stack>>
       /\ UNCHANGED <<kind, connecting, wired, needDrain, source, token, closures,
                      closeEmits, cancelCalls, uncaught, userDisposed>>

\* The listeners that wait for 'close' when dispose() is called on a
\* connection that is neither closed nor disposed; kept as it was otherwise.
CloseAudience ==
  IF ~sock.closed /\ ~sock.disposed /\ "close" \in DOMAIN listeners
  THEN CallbacksOf(listeners["close"])
  ELSE audience

\* dispose(), called by outside code
SockDispose ==
  /\ Assign(DisposeResult(Here))
  /\ audience' = CloseAudience
  /\ userDisposed' = TRUE
  /\ last' = Call("dispose", "-", NoCallback, "ok")
  /\ emitted' = <<>>
  /\ UNCHANGED <<maxListeners, called, stack>>
  /\ UNCHANGED <<kind, connecting, wired, needDrain, source, token, closures,
                 closeEmits, cancelCalls, uncaught, arrived, surfaced>>

\* The graceful shutdown is over: the callback passed to handler.end runs
\* `super.emit('close', null); this.#source.cancel();`. Cancelling the source
\* runs its listener at once: `ac.abort(reason); this.dispose();`.
SockEndCallback ==
  /\ ending = "pending"
  /\ LET r == EmitPlain(listeners, "close")
         afterEmit == [Here EXCEPT !.listeners = r.listeners, !.ending = "done"]
     IN /\ closeEmits' = closeEmits + 1
        /\ emitted' = <<[event |-> "close", ran |-> r.ran]>>
        /\ IF source = "none"
           THEN /\ Assign(afterEmit)
                /\ uncaught' = TRUE
                /\ last' = Call("end callback", "-", NoCallback, "TypeError")
                /\ UNCHANGED <<source, cancelCalls>>
           ELSE /\ Assign(IF source = "active" THEN DisposeResult(afterEmit) ELSE afterEmit)
                /\ source' = "cancelled"
                /\ cancelCalls' = cancelCalls + 1
                /\ last' = Call("end callback", "-", NoCallback, "ok")
                /\ UNCHANGED uncaught
  /\ UNCHANGED <<maxListeners, called, stack>>
  /\ UNCHANGED <<kind, connecting, wired, needDrain, token, closures, userDisposed>>

\* The token given to the constructor is cancelled. An accepted connection
\* listens to it directly; an outbound one through #source, its child.
TokenCancel ==
  /\ token = "active"
  /\ token' = "cancelled"
  /\ IF kind = "accepted"
     THEN Assign(DisposeResult(Here)) /\ UNCHANGED source
     ELSE IF source = "active"
     THEN Assign(DisposeResult(Here)) /\ source' = "cancelled"
     ELSE Assign(Here) /\ UNCHANGED source
  /\ audience' = IF kind = "accepted" \/ source = "active" THEN CloseAudience ELSE audience
  /\ last' = Call("token cancelled", "-", NoCallback, "ok")
  /\ emitted' = <<>>
  /\ UNCHANGED <<maxListeners, called, stack>>
  /\ UNCHANGED <<kind, connecting, wired, needDrain, closures, closeEmits,
                 cancelCalls, uncaught, userDisposed, arrived, surfaced>>

\* The stream drained after a refused write; only the handler that the
\* connect callback attached passes it on as emit('drain').
SockDrain ==
  /\ needDrain
  /\ kind = "outbound" => wired
  /\ needDrain' = FALSE
  /\ IF wired
     THEN LET r == EmitDrain(listeners, sock.flushing)
          IN /\ listeners' = r.listeners
             /\ sock' = [sock EXCEPT !.flushing = r.flushing]
             /\ emitted' = r.emitted
     ELSE /\ emitted' = <<>>
          /\ UNCHANGED <<listeners, sock>>
  /\ last' = Call("drain", "-", NoCallback, "ok")
  /\ UNCHANGED <<maxListeners, disposed, called, stack>>
  /\ UNCHANGED <<kind, connecting, wired, ending, source, token, closures, endCalls,
                 closeEmits, cancelCalls, uncaught, userDisposed>>

\* A chunk arrives on the stream. Only the 'data' handler that the connect
\* callback attached passes it on, as emit('data', buffer); #mask is never
\* assigned, so the buffer is the chunk as it arrived.
SockChunk(chunk) ==
  /\ kind = "accepted" \/ wired
  /\ source # "cancelled"
  /\ Len(arrived) < MaxChunks
  /\ arrived' = Append(arrived, chunk)
  /\ IF wired
     THEN LET r == EmitPlain(listeners, "data")
          IN /\ listeners' = r.listeners
             /\ emitted' = <<[event |-> "data", ran |-> r.ran]>>
             /\ surfaced' = Append(surfaced, chunk)
     ELSE /\ emitted' = <<>>
          /\ UNCHANGED <<listeners, surfaced>>
  /\ last' = Call("chunk", "-", NoCallback, "ok")
  /\ UNCHANGED <<maxListeners, disposed, called, stack, audience>>
  /\ UNCHANGED svarsButEmitted

SockNext ==
  \/ (UNCHANGED <<hvars, tvars, xvars>> /\ SockConnect)
  \/ (UNCHANGED <<hvars, tvars, xvars>> /\ SockConnected)
  \/ (UNCHANGED <<hvars, tvars, xvars>> /\ \E op \in {"send", "write"}, accepted \in BOOLEAN :
         (accepted \/ closures < MaxRefused) /\ SockWrite(op, accepted))
  \/ (UNCHANGED <<hvars, tvars, xvars>> /\ \E op \in {"on", "once"}, e \in SocketEvents, c \in SocketCallbacks :
         SockOn(op, e, c))
  \/ (UNCHANGED <<hvars, tvars, xvars>> /\ \E e \in SocketEvents, c \in SocketCallbacks : SockOff(e, c))
  \/ (UNCHANGED <<hvars, tvars, xvars>> /\ SockClose)
  \/ (UNCHANGED <<tvars, xvars>> /\ SockDispose)
  \/ (UNCHANGED <<hvars, tvars, xvars>> /\ SockEndCallback)
  \/ (UNCHANGED <<tvars, xvars>> /\ TokenCancel)
  \/ (UNCHANGED <<hvars, tvars, xvars>> /\ SockDrain)
  \/ (UNCHANGED <<tvars, xvars>> /\ \E chunk \in 1..MaxChunks : SockChunk(chunk))

SpecSocket == SockInit /\ [][SockNext]_vars

\* ---------------------------------------------------------------- TCPServer
\* SocketAddr: the constructor turns the family into a type and refuses a
\* port that validatePort refuses.
ValidatePort(value) == value = 0 \/ (value >= 1024 /\ value <= 65535)
SocketAddr(address, port, family) ==
  [address |-> address, port |-> port,
   type |-> IF family = "IPv4" THEN AF_INET ELSE AF_INET6]
Family(addr) == IF addr.type = AF_INET THEN "IPv4" ELSE "IPv6"

\* The remote ends a connection comes from: remoteAddress, remotePort and
\* remoteFamily of the raw stream.
Remote(port, family) == [address |-> "10.0.0.1", port |-> port, family |-> family]
Remotes == {Remote(1023, "IPv4"), Remote(1024, "IPv4"), Remote(65535, "IPv4")}
\* The addresses outside code sends to.
Targets == {SocketAddr("10.0.0.1", 1024, "IPv4"), SocketAddr("10.0.0.1", 1024, "IPv6")}

\* What outside code listens to on a server, and the settings it sets.
ServerEvents == {"connection"}
SettingNames == {"supress cancellation error", "mask"}
SettingValues(name) == IF name = "mask" THEN {"bytes"} ELSE {"true", "false"}
Undefined == "undefined"
\* Map.get
GetSetting(m, name) == IF name \in DOMAIN m THEN m[name] ELSE Undefined

\* new TCPSocket(sock): the connection object of an accepted stream
NewConn ==
  [listeners |-> EmptyMap, disposed |-> FALSE,
   sock |-> [closed |-> FALSE, flushing |-> FALSE, disposed |-> FALSE],
   ending |-> "no", endCalls |-> 0, closures |-> 0]

\* socket.write(payload) on a connection object; `accepted` is what
\* handler.write(payload) returns
ConnWriteResult(conn, accepted) ==
  IF conn.sock.disposed
  THEN [conn |-> conn, res |-> "ERR_RESOURCE_DISPOSED"]
  ELSE IF accepted
  THEN [conn |-> conn, res |-> "true"]
  ELSE LET r == AddResult(conn.listeners, DefaultMaxListeners, "drain",
                          Closure(conn.closures + 1), TRUE)
       IN [conn |-> [conn EXCEPT !.sock.flushing = FALSE,
                                 !.closures = conn.closures + 1,
                                 !.listeners = r.listeners],
           res |-> IF r.res = "raise" THEN "raise" ELSE "false"]

\* The test of #write that compares address and port and not the type
SameAddrIgnoringType(address, to) ==
  address.address = to.address /\ address.port = to.port

\* The test of #write: address, port and type are equal
SameAddr(address, to) ==
  /\ address.address = to.address
  /\ address.port = to.port
  /\ address.type = to.type

RECURSIVE FirstMatch(_, _, _)
\* The loop of #write over #clients.entries(): the first entry from k on
\* whose address matches, 0 when there is none
FirstMatch(cl, to, k) ==
  IF k > Len(cl) THEN 0
  ELSE IF SameAddr(cl[k].addr, to) THEN k
  ELSE FirstMatch(cl, to, k + 1)

\* The part of the server that close() and dispose() work on.
ServerHere ==
  [listeners |-> listeners, disposed |-> disposed, srv |-> srv, handler |-> handler,
   settings |-> settings, clients |-> clients, conns |-> conns, raised |-> FALSE]

SrvAssign(st) ==
  /\ listeners' = st.listeners
  /\ disposed' = st.disposed
  /\ srv' = st.srv
  /\ handler' = st.handler
  /\ settings' = st.settings
  /\ clients' = st.clients
  /\ conns' = st.conns

\* close() past #ensureNotDisposed: handler.close(cb); #state.closed is set
\* by cb
SrvCloseResult(st) ==
  IF st.srv.closed THEN st ELSE [st EXCEPT !.handler = "closing"]

\* Disposable.dispose(): the objects given to _register are disposed with
\* their owner.
DisposeRegistered(cs) == [k \in DOMAIN cs |-> DisposeResult(cs[k])]

RECURSIVE CloseAll(_, _, _)
\* `for(const socket of this.#clients.values()) socket.close();` from entry
\* k on; close() of a disposed connection throws. st = [conns, raised]
CloseAll(cl, k, st) ==
  IF k > Len(cl) THEN st
  ELSE IF st.conns[cl[k].conn].sock.disposed
  THEN [st EXCEPT !.raised = TRUE]
  ELSE CloseAll(cl, k + 1, [st EXCEPT !.conns[cl[k].conn] = CloseResult(@)])

\* dispose(): EventEmitter.dispose(), then close(), the settings cleared,
\* every registered connection closed, the registry cleared, the mark set
SrvDisposeResult(st) ==
  LET a == [st EXCEPT !.conns = DisposeRegistered(@)]
      e == IF a.disposed THEN a ELSE [a EXCEPT !.listeners = EmptyMap, !.disposed = TRUE]
  IN IF e.srv.disposed
     THEN e
     ELSE LET c == [SrvCloseResult(e) EXCEPT !.settings = EmptyMap]
              loop == CloseAll(c.clients, 1, [conns |-> c.conns, raised |-> FALSE])
          IN IF loop.raised
             THEN [c EXCEPT !.conns = loop.conns, !.raised = TRUE]
             ELSE [c EXCEPT !.conns = loop.conns, !.clients = <<>>, !.srv.disposed = TRUE]

\* What no operation of the server touches
SrvFrame == UNCHANGED <<maxListeners, called, stack, svarsButEmitted, hvars, xvars>>

\* No event of the server carries a connection
NoPayload == [optional |-> FALSE, conn |-> 0]

\* #ensureNotDisposed() throws
SrvReject(op, event, callback) ==
  /\ last' = Call(op, event, callback, "ERR_RESOURCE_DISPOSED")
  /\ emitted' = <<>>
  /\ UNCHANGED <<listeners, disposed>>
  /\ UNCHANGED tvars
  /\ SrvFrame

SrvInit ==
  /\ listeners = EmptyMap
  /\ maxListeners = InitialMax(0)
  /\ disposed = FALSE
  /\ called = {}
  /\ stack = <<>>
  /\ last = Call("none", "-", NoCallback, "-")
  /\ NoSocket
  /\ NoServer
  /\ NoExtras

\* listen(): the promise settles later; a second handler.listen throws
\* inside the promise
SrvListen ==
  /\ srv.disposed \/ srv.listening \/ handler \in {"idle", "binding"}
  /\ IF srv.disposed
     THEN SrvReject("listen", "-", NoCallback)
     ELSE /\ IF srv.listening
             THEN /\ last' = Call("listen", "-", NoCallback, "ERR_ONCE_METHOD_CALLED_AGAIN")
                  /\ UNCHANGED handler
             ELSE IF handler = "binding"
             THEN /\ last' = Call("listen", "-", NoCallback, "rejected")
                  /\ UNCHANGED handler
             ELSE /\ last' = Call("listen", "-", NoCallback, "pending")
                  /\ handler' = "binding"
          /\ emitted' = <<>>
          /\ UNCHANGED <<listeners, disposed, srv, settings, clients, conns, srvToken,
                         terminated, wrote>>
          /\ SrvFrame

\* The callback passed to handler.listen
SrvListening ==
  /\ handler = "binding"
  /\ handler' = "listening"
  /\ LET r == EmitPlain(listeners, "listening")
     IN /\ listeners' = r.listeners
        /\ emitted' = <<[event |-> "listening", ran |-> r.ran, payload |-> NoPayload]>>
  /\ srv' = [srv EXCEPT !.listening = TRUE]
  /\ last' = Call("listening", "-", NoCallback, "ok")
  /\ UNCHANGED <<disposed, settings, clients, conns, srvToken, terminated, wrote>>
  /\ SrvFrame

\* set(setting, value)
SrvSet(setting, value) ==
  IF srv.disposed
  THEN SrvReject("set", setting, NoCallback)
  ELSE /\ settings' = SetKey(settings, setting, value)
       /\ last' = Call("set", setting, NoCallback, "ok")
       /\ emitted' = <<>>
       /\ UNCHANGED <<listeners, disposed, srv, handler, clients, conns, srvToken,
                      terminated, wrote>>
       /\ SrvFrame

\* get(setting)
SrvGet(setting) ==
  IF srv.disposed
  THEN SrvReject("get", setting, NoCallback)
  ELSE /\ last' = Call("get", setting, NoCallback, GetSetting(settings, setting))
       /\ emitted' = <<>>
       /\ UNCHANGED <<listeners, disposed>>
       /\ UNCHANGED tvars
       /\ SrvFrame

\* on(event, callback) and once(event, callback)
SrvOn(op, event, callback) ==
  IF srv.disposed
  THEN SrvReject(op, event, callback)
  ELSE /\ IF disposed
          THEN /\ listeners' = listeners
               /\ last' = Call(op, event, callback, "raise")
          ELSE LET r == AddResult(listeners, maxListeners, event, callback, op = "once")
               IN /\ listeners' = r.listeners
                  /\ last' = Call(op, event, callback, r.res)
       /\ emitted' = <<>>
       /\ UNCHANGED disposed
       /\ UNCHANGED tvars
       /\ SrvFrame

\* off(event, callback)
SrvOff(event, callback) ==
  IF srv.disposed
  THEN SrvReject("off", event, callback)
  ELSE /\ IF disposed
          THEN /\ listeners' = listeners
               /\ last' = Call("off", event, callback, "raise")
          ELSE /\ listeners' = RemoveResult(listeners, event, callback).listeners
               /\ last' = Call("off", event, callback, "ok")
       /\ emitted' = <<>>
       /\ UNCHANGED disposed
       /\ UNCHANGED tvars
       /\ SrvFrame

\* close()
SrvClose ==
  IF srv.disposed
  THEN SrvReject("close", "-", NoCallback)
  ELSE /\ SrvAssign(SrvCloseResult(ServerHere))
       /\ last' = Call("close", "-", NoCallback, "ok")
       /\ emitted' = <<>>
       /\ UNCHANGED <<srvToken, terminated, wrote>>
       /\ SrvFrame

\* The net.Server closed, which it does when every connection has ended:
\* the callbacks passed to handler.close run, each
\* `super.emit('close', null); this.#state.closed = true;`
SrvClosed ==
  /\ handler = "closing"
  /\ \A c \in DOMAIN conns : conns[c].ending = "done"
  /\ handler' = "closed"
  /\ LET r == EmitPlain(listeners, "close")
     IN /\ listeners' = r.listeners
        /\ emitted' = <<[event |-> "close", ran |-> r.ran, payload |-> NoPayload]>>
  /\ srv' = [srv EXCEPT !.closed = TRUE]
  /\ last' = Call("closed", "-", NoCallback, "ok")
  /\ UNCHANGED <<disposed, settings, clients, conns, srvToken, terminated, wrote>>
  /\ SrvFrame

\* dispose()
SrvDispose ==
  LET st == SrvDisposeResult(ServerHere)
  IN /\ SrvAssign(st)
     /\ last' = Call("dispose", "-", NoCallback,
                     IF st.raised THEN "ERR_RESOURCE_DISPOSED" ELSE "ok")
     /\ emitted' = <<>>
     /\ UNCHANGED <<srvToken, terminated, wrote>>
     /\ SrvFrame

\* The token given to the constructor is cancelled: #handleCancellation runs
\* inside the cancel() call of whoever cancels
SrvTokenCancel ==
  /\ srvToken = "active"
  /\ srvToken' = "cancelled"
  /\ IF srv.disposed
     THEN /\ last' = Call("cancel", "-", NoCallback, "ERR_RESOURCE_DISPOSED")
          /\ UNCHANGED <<listeners, disposed, srv, handler, settings, clients, conns>>
     ELSE LET st == SrvDisposeResult(SrvCloseResult(ServerHere))
          IN /\ SrvAssign(st)
             /\ last' = Call("cancel", "-", NoCallback,
                             IF st.raised
                             THEN "ERR_RESOURCE_DISPOSED"
                             ELSE IF GetSetting(st.settings, "supress cancellation error") # "true"
                             THEN "ERR_TOKEN_CANCELLED"
                             ELSE "ok")
  /\ emitted' = <<>>
  /\ UNCHANGED <<terminated, wrote>>
  /\ SrvFrame

\* A connection reaches the server: the callback passed to net.createServer.
\* A remote end has one connection at a time.
SrvAccept(remote) ==
  /\ srv.listening
  /\ handler = "listening" \/ (handler = "closing" /\ srvToken = "cancelled")
  /\ \A k \in DOMAIN clients :
       clients[k].addr = SocketAddr(remote.address, remote.port, remote.family)
         => conns[clients[k].conn].ending = "done"
  /\ IF srvToken = "cancelled"
     THEN /\ terminated < MaxConns
          /\ terminated' = terminated + 1
          /\ last' = Call("accept", "-", NoCallback, "terminated")
          /\ emitted' = <<>>
          /\ UNCHANGED <<listeners, clients, conns>>
     ELSE /\ Len(conns) < MaxConns
          /\ IF ~ValidatePort(remote.port)
             THEN /\ last' = Call("accept", "-", NoCallback, "ERR_INVALID_ARGUMENT")
                  /\ emitted' = <<>>
                  /\ UNCHANGED <<listeners, clients, conns>>
             ELSE LET id == Len(conns) + 1
                      r == EmitPlain(listeners, "connection")
                  IN /\ conns' = Append(conns, NewConn)
                     /\ clients' = Append(clients,
                          [addr |-> SocketAddr(remote.address, remote.port, remote.family),
                           conn |-> id])
                     /\ listeners' = r.listeners
                     /\ emitted' = <<[event |-> "connection", ran |-> r.ran,
                                      payload |-> [optional |-> FALSE, conn |-> id]]>>
                     /\ last' = Call("accept", "-", NoCallback, "ok")
          /\ UNCHANGED terminated
  /\ UNCHANGED <<disposed, srv, handler, settings, srvToken, wrote>>
  /\ SrvFrame

\* send(target, payload) and write(target, payload): no #ensureNotDisposed;
\* #write masks the payload when the 'mask' setting is set
SrvWrite(op, target, accepted) ==
  LET idx == FirstMatch(clients, target, 1)
      masked == GetSetting(settings, "mask") # Undefined
  IN /\ IF idx = 0
        THEN /\ wrote' = [conn |-> 0, masked |-> masked]
             /\ last' = Call(op, "-", NoCallback, "true")
             /\ UNCHANGED conns
        ELSE LET c == clients[idx].conn
                 r == ConnWriteResult(conns[c], accepted)
             IN /\ conns' = [conns EXCEPT ![c] = r.conn]
                /\ wrote' = [conn |-> IF r.res = "ERR_RESOURCE_DISPOSED" THEN 0 ELSE c,
                             masked |-> masked]
                /\ last' = Call(op, "-", NoCallback, r.res)
     /\ emitted' = <<>>
     /\ UNCHANGED <<listeners, disposed, srv, handler, settings, clients, srvToken,
                    terminated>>
     /\ SrvFrame

\* close() on a connection object, called by whoever holds it
ConnClose(c) ==
  /\ c \in DOMAIN conns
  /\ IF conns[c].sock.disposed
     THEN /\ last' = Call("socket.close", "-", NoCallback, "ERR_RESOURCE_DISPOSED")
          /\ UNCHANGED conns
     ELSE /\ conns' = [conns EXCEPT ![c] = CloseResult(@)]
          /\ last' = Call("socket.close", "-", NoCallback, "ok")
  /\ emitted' = <<>>
  /\ UNCHANGED <<listeners, disposed, srv, handler, settings, clients, srvToken,
                 terminated, wrote>>
  /\ SrvFrame

\* dispose() on a connection object, called by whoever holds it
ConnDispose(c) ==
  /\ c \in DOMAIN conns
  /\ conns' = [conns EXCEPT ![c] = DisposeResult(@)]
  /\ last' = Call("socket.dispose", "-", NoCallback, "ok")
  /\ emitted' = <<>>
  /\ UNCHANGED <<listeners, disposed, srv, handler, settings, clients, srvToken,
                 terminated, wrote>>
  /\ SrvFrame

\* The graceful shutdown of a connection object is over: its end callback
\* emits 'close' and then reads #source, which an accepted connection never
\* assigned
ConnEndCallback(c) ==
  /\ c \in DOMAIN conns
  /\ conns[c].ending = "pending"
  /\ conns' = [conns EXCEPT ![c].ending = "done",
                            ![c].listeners = EmitPlain(@, "close").listeners]
  /\ last' = Call("socket end callback", "-", NoCallback, "TypeError")
  /\ emitted' = <<>>
  /\ UNCHANGED <<listeners, disposed, srv, handler, settings, clients, srvToken,
                 terminated, wrote>>
  /\ SrvFrame

RECURSIVE TotalClosures(_, _)
TotalClosures(cs, k) ==
  IF k > Len(cs) THEN 0 ELSE cs[k].closures + TotalClosures(cs, k + 1)

SrvNext ==
  \/ SrvListen
  \/ SrvListening
  \/ \E n \in SettingNames : \E v \in SettingValues(n) : SrvSet(n, v)
  \/ \E n \in SettingNames : SrvGet(n)
  \/ \E op \in {"on", "once"}, e \in ServerEvents, c \in SocketCallbacks : SrvOn(op, e, c)
  \/ \E e \in ServerEvents, c \in SocketCallbacks : SrvOff(e, c)
  \/ SrvClose
  \/ SrvClosed
  \/ SrvDispose
  \/ SrvTokenCancel
  \/ \E r \in Remotes : SrvAccept(r)
  \/ \E op \in {"send", "write"}, t \in Targets, accepted \in BOOLEAN :
       (accepted \/ TotalClosures(conns, 1) < MaxServerRefused) /\ SrvWrite(op, t, accepted)
  \/ \E c \in 1..MaxConns : ConnClose(c)
  \/ \E c \in 1..MaxConns : ConnDispose(c)
  \/ \E c \in 1..MaxConns : ConnEndCallback(c)

SpecServer == SrvInit /\ [][SrvNext]_vars

\* ------------------------------------------------------------ WebhookServer
\* The endpoint is an EventEmitter with an http.Server behind it.  One request
\* is followed at a time: requests share nothing but the endpoint's #state,
\* and each of its callbacks runs to completion.  A URL path is the sequence
\* of its characters, so that String.replace has something to act on; a body
\* is the number of bytes accumulated.  Listeners return normally.
MaxRequests == 2
MaxBody == 6
MinBodyBytes == 4

Methods == {"OPTIONS", "GET", "POST"}
WebhookPath == <<"/", "w", "e", "b", "h", "o", "o", "k">>
OtherPath == <<"/", "o", "t", "h", "e", "r">>
NestedPath == <<"/", "w", "e", "b", "/", "h", "o", "o", "k">>
Paths == {WebhookPath, OtherPath, NestedPath}
ChunkSizes == {1, 3}
\* options.maxMessageSize: absent, or a number of bytes
NoLimit == [defined |-> FALSE, bytes |-> 0]
Limit(n) == [defined |-> TRUE, bytes |-> n]
MessageSizes == {NoLimit, Limit(2), Limit(5)}

\* url.pathname.replace(/\//g, '')
StripSlashes(pathname) == SelectSeq(pathname, LAMBDA ch : ch # "/")

\* url.pathname.replace(/\//g, '') !== 'webhook'
OffEndpoint(pathname) == StripSlashes(pathname) # <<"w", "e", "b", "h", "o", "o", "k">>

HookEvent(name, size) == [name |-> name, size |-> size]

Answer(r, status) == [r EXCEPT !.status = status, !.pc = "done"]

\* #handleIncoming until the body handlers are attached: the request is
\* answered at once or waits for its body
Arrival(method, pathname) ==
  LET r == [NoRequest EXCEPT !.method = method, !.path = pathname, !.pc = "body",
                             !.at = [listening |-> hook.listening,
                                     disposed |-> hook.disposed]]
  IN IF ~hook.listening THEN Answer(r, 503)
     ELSE IF hook.disposed
     THEN [Answer(r, 503) EXCEPT !.events = <<HookEvent("error", 0)>>,
                                 !.raised = "ERR_RESOURCE_DISPOSED"]
     ELSE IF method = "OPTIONS" THEN Answer(r, 204)
     ELSE IF method # "POST" THEN Answer(r, 405)
     ELSE IF OffEndpoint(pathname) THEN Answer(r, 418)
     ELSE r

\* The 'end' handler up to `await parseMessage(...)`
EndOfBody(r, ok) ==
  IF r.body < MinBodyBytes THEN Answer(r, 412)
  ELSE IF hookOpts.maxMessageSize.defined /\ r.body > hookOpts.maxMessageSize.bytes
  THEN Answer(r, 413)
  ELSE [r EXCEPT !.events = Append(@, HookEvent("raw-message", r.body)),
                 !.pc = "parsing", !.parses = ok]

\* The catch of the 'end' handler: the promise of the body is left pending
ParseFailureRejects(r) ==
  [Answer(r, 422) EXCEPT !.events = @ \o <<HookEvent("error", 0), HookEvent("error", 0)>>,
                         !.raised = "ERR_UNKNOWN_ERROR"]

ParseFailure(r) ==
  [Answer(r, 422) EXCEPT !.events = Append(@, HookEvent("error", 0))]

\* The 'end' handler after `await parseMessage(...)`
AfterParseAnnouncesAlways(r) ==
  IF r.parses
  THEN [Answer(r, 202) EXCEPT !.events = Append(@, HookEvent("message", r.body))]
  ELSE [ParseFailure(r) EXCEPT !.events = Append(r.events, HookEvent("message", r.body))]

AfterParse(r) ==
  IF r.parses
  THEN [Answer(r, 202) EXCEPT !.events = Append(@, HookEvent("message", r.body))]
  ELSE ParseFailure(r)

\* What no operation of the endpoint touches
HookFrame ==
  UNCHANGED <<listeners, maxListeners, called, stack, last, svars, hvars, tvars, pvars, mvars,
              yvars>>

\* Requests reach the handler while the http.Server has its port
Serving == http \in {"listening", "closing"}

Settle(r) ==
  /\ req' = r
  /\ served' = IF r.pc = "done" THEN Append(served, r.status) ELSE served

HookInit ==
  /\ listeners = EmptyMap
  /\ maxListeners = InitialMax(0)
  /\ disposed = FALSE
  /\ called = {}
  /\ stack = <<>>
  /\ last = Call("none", "-", NoCallback, "-")
  /\ NoSocket
  /\ NoServer
  /\ NoCodec
  /\ NoEnvelope
  /\ NoMore
  /\ hook = [paused |-> FALSE, closed |-> FALSE, disposed |-> FALSE, listening |-> FALSE]
  /\ hookOpts \in [lazy : BOOLEAN, deadline : BOOLEAN, maxMessageSize : MessageSizes]
  /\ http = IF hookOpts.lazy THEN "idle" ELSE "binding"
  /\ timer = IF ~hookOpts.lazy /\ hookOpts.deadline THEN "armed" ELSE "none"
  /\ hookLog = <<>>
  /\ req = NoRequest
  /\ served = <<>>

\* init() of an endpoint constructed lazily: #init arms the deadline and
\* #listen asks the http.Server to bind
HookStart ==
  /\ http = "idle"
  /\ http' = "binding"
  /\ timer' = IF hookOpts.deadline THEN "armed" ELSE timer
  /\ UNCHANGED <<hook, hookOpts, hookLog, req, served, disposed>>
  /\ HookFrame

\* The callback of handler.listen
HookListening ==
  /\ http = "binding"
  /\ http' = "listening"
  /\ hookLog' = Append(hookLog, "listening")
  /\ hook' = [hook EXCEPT !.listening = TRUE]
  /\ UNCHANGED <<hookOpts, timer, req, served, disposed>>
  /\ HookFrame

\* The once('error') handler of #listen: the bind failed
HookListenFailed ==
  /\ http = "binding"
  /\ http' = "failed"
  /\ hookLog' = Append(hookLog, "ERR_UNKNOWN_ERROR")
  /\ UNCHANGED <<hook, hookOpts, timer, req, served, disposed>>
  /\ HookFrame

\* dispose(): super.dispose(), then close(), emit('dispose') and the mark,
\* unless the endpoint is disposed already
DisposeHook(c) ==
  IF c.hook.disposed
  THEN c
  ELSE [c EXCEPT !.http = IF c.hook.closed THEN @ ELSE "closing",
                 !.log = Append(@, "dispose"),
                 !.hook.disposed = TRUE]

HookHere == [hook |-> hook, http |-> http, log |-> hookLog]

HookDispose ==
  /\ LET c == DisposeHook(HookHere)
     IN /\ hook' = c.hook
        /\ http' = c.http
        /\ hookLog' = c.log
  /\ disposed' = TRUE
  /\ UNCHANGED <<hookOpts, timer, req, served>>
  /\ HookFrame

\* The setTimeout callback of #init
HookDeadline ==
  /\ timer = "armed"
  /\ timer' = "fired"
  /\ LET c == DisposeHook(HookHere)
     IN /\ hook' = c.hook
        /\ http' = c.http
        /\ hookLog' = Append(c.log, "ERR_TIMEOUT")
  /\ disposed' = TRUE
  /\ UNCHANGED <<hookOpts, req, served>>
  /\ HookFrame

\* close() on an endpoint that is neither closed nor disposed
HookClose ==
  /\ ~hook.closed
  /\ ~hook.disposed
  /\ http # "closing"
  /\ http' = "closing"
  /\ UNCHANGED <<hook, hookOpts, timer, hookLog, req, served, disposed>>
  /\ HookFrame

\* The callback of handler.close: the connections have ended
HookClosed ==
  /\ http = "closing"
  /\ req.pc = "done"
  /\ http' = "closed"
  /\ hook' = [hook EXCEPT !.closed = TRUE]
  /\ hookLog' = Append(hookLog, "close")
  /\ UNCHANGED <<hookOpts, timer, req, served, disposed>>
  /\ HookFrame

HookRequest(method, pathname) ==
  /\ Serving
  /\ req.pc = "done"
  /\ Len(served) < MaxRequests
  /\ Settle(Arrival(method, pathname))
  /\ UNCHANGED <<hook, hookOpts, http, timer, hookLog, disposed>>
  /\ HookFrame

\* The 'data' handler
HookData(n) ==
  /\ req.pc = "body"
  /\ req.body + n <= MaxBody
  /\ req' = [req EXCEPT !.body = @ + n]
  /\ UNCHANGED <<hook, hookOpts, http, timer, hookLog, served, disposed>>
  /\ HookFrame

HookEnd(ok) ==
  /\ req.pc = "body"
  /\ Settle(EndOfBody(req, ok))
  /\ UNCHANGED <<hook, hookOpts, http, timer, hookLog, disposed>>
  /\ HookFrame

HookParsed ==
  /\ req.pc = "parsing"
  /\ Settle(AfterParse(req))
  /\ UNCHANGED <<hook, hookOpts, http, timer, hookLog, disposed>>
  /\ HookFrame

HookNext ==
  \/ HookStart
  \/ HookListening
  \/ HookListenFailed
  \/ HookDispose
  \/ HookDeadline
  \/ HookClose
  \/ HookClosed
  \/ \E m \in Methods, p \in Paths : HookRequest(m, p)
  \/ \E n \in ChunkSizes : HookData(n)
  \/ \E ok \in BOOLEAN : HookEnd(ok)
  \/ HookParsed

SpecWebhook == HookInit /\ [][HookNext]_vars

\* ----------------------------------------------------------------- protocol
\* Bytes are numbers in 0..255 and a Buffer is a sequence of bytes.  A string
\* is the sequence of its code points (below 2048 here), so that Buffer.from
\* and toString have an encoding to perform.  A JavaScript number is
\* n + wraps * 2^32 + (1/2 if half), n a 32-bit two's complement integer:
\* ToInt32 of it is n (n + 1 for a negative number with a half), and the
\* bitwise operators act on n.
MaxArrayLen == 2
MaxRead == 3

Null == [t |-> "null"]
Str(chars) == [t |-> "string", chars |-> chars]
Bin(bytes) == [t |-> "buffer", bytes |-> bytes]
Number(n, wraps, half) == [t |-> "number", n |-> n, wraps |-> wraps, half |-> half]
Integer(n) == Number(n, 0, FALSE)
Arr(e) == [t |-> "array", e |-> e]
Obj(kv) == [t |-> "object", kv |-> kv]
\* What Marshalling.encode returns for a value it accepts
Marshalled(v) == [t |-> "marshalled", of |-> v]

MinInt32 == -2147483647 - 1
MaxInt32 == 2147483647

Min(a, b) == IF a < b THEN a ELSE b

RECURSIVE Flatten(_)
Flatten(seqs) == IF seqs = <<>> THEN <<>> ELSE Head(seqs) \o Flatten(Tail(seqs))

\* ToInt32 of a number
ToInt32(x) ==
  IF x.half /\ (x.wraps < 0 \/ (x.wraps = 0 /\ x.n < 0)) THEN x.n + 1 ELSE x.n

\* x | y on 32-bit two's complement integers
RECURSIVE BitOr(_, _)
BitOr(x, y) ==
  IF x = 0 THEN y
  ELSE IF y = 0 THEN x
  ELSE IF x = -1 \/ y = -1 THEN -1
  ELSE (IF x % 2 = 1 \/ y % 2 = 1 THEN 1 ELSE 0) + 2 * BitOr(x \div 2, y \div 2)

\* bitwise.or(x, y) of a number and a small integer
or(x, y) == Integer(BitOr(ToInt32(x), y))

\* a << n for a in 0..127: the shift count is taken modulo 32 and the
\* result is a 32-bit two's complement integer
ShiftLeft(a, n) ==
  LET s == n % 32
      keep == 32 - s
  IN IF keep > 7
     THEN a * 2^s
     ELSE LET low == a % 2^keep
          IN IF low >= 2^(keep - 1) THEN (low - 2^keep) * 2^s ELSE low * 2^s

\* x >>> 7 for a 32-bit two's complement integer x
ShiftRightUnsigned7(x) ==
  IF x >= 0 THEN x \div 128 ELSE (((x + MaxInt32) + 1) \div 128) + 16777216

\* Buffer.from(string): UTF-8
RECURSIVE Utf8Encode(_)
Utf8Encode(chars) ==
  IF chars = <<>> THEN <<>>
  ELSE LET c == Head(chars)
           bytes == IF c < 128 THEN <<c>>
                    ELSE IF c < 2048 THEN <<192 + (c \div 64), 128 + (c % 64)>>
                    ELSE <<224 + (c \div 4096), 128 + ((c \div 64) % 64), 128 + (c % 64)>>
       IN bytes \o Utf8Encode(Tail(chars))

\* Buffer.toString(): UTF-8 of one and two byte sequences, U+FFFD for a byte
\* that starts neither
RECURSIVE Utf8Decode(_)
Utf8Decode(bytes) ==
  IF bytes = <<>> THEN <<>>
  ELSE LET b == Head(bytes)
       IN IF b < 128 THEN <<b>> \o Utf8Decode(Tail(bytes))
          ELSE IF /\ b >= 194 /\ b < 224 /\ Len(bytes) >= 2
                  /\ bytes[2] >= 128 /\ bytes[2] < 192
          THEN <<(b - 192) * 64 + (bytes[2] - 128)>> \o Utf8Decode(Tail(Tail(bytes)))
          ELSE <<65533>> \o Utf8Decode(Tail(bytes))

\* ---- BufferReader
NoError == "-"
Reader(buffer, whole) == [open |-> TRUE, whole |-> whole, buffer |-> buffer, cursor |-> 0]

\* BufferReader.read(bytes): the chunk, the cursor after it, or the error
Read(buffer, cursor, bytes) ==
  IF cursor >= Len(buffer)
  THEN [err |-> "ERR_END_OF_STREAM", chunk |-> <<>>, cursor |-> cursor]
  ELSE IF bytes < 0
  THEN [err |-> "ERR_ASSERTION", chunk |-> <<>>, cursor |-> cursor]
  ELSE LET end == Min(cursor + bytes, Len(buffer))
       IN [err |-> NoError, chunk |-> SubSeq(buffer, cursor + 1, end), cursor |-> end]

\* ---- varint
RECURSIVE ReadIntVQLFrom(_, _, _, _)
ReadIntVQLFrom(buffer, cursor, value, n) ==
  LET next == Read(buffer, cursor, 1)
  IN IF next.err # NoError
     THEN [err |-> next.err, value |-> 0, cursor |-> next.cursor]
     ELSE LET v == BitOr(value, ShiftLeft(next.chunk[1] % 128, n))
          IN IF next.chunk[1] < 128
             THEN [err |-> NoError, value |-> v, cursor |-> next.cursor]
             ELSE ReadIntVQLFrom(buffer, next.cursor, v, n + 7)

ReadIntVQL(buffer, cursor) == ReadIntVQLFrom(buffer, cursor, 0, 0)

\* The second loop of writeInt32VQL: seven bits a byte, lowest first
RECURSIVE VQLBytes(_, _)
VQLBytes(value, marked) ==
  IF value = 0 THEN <<>>
  ELSE LET rest == ShiftRightUnsigned7(value)
           low == value % 128
       IN <<IF rest > 0 /\ marked THEN low + 128 ELSE low>> \o VQLBytes(rest, marked)

WriteInt32VQLUnmarked(value) ==
  IF value = 0 THEN <<0>> ELSE VQLBytes(value, FALSE)

WriteInt32VQL(value) ==
  IF value = 0 THEN <<0>> ELSE VQLBytes(value, TRUE)

\* ---- JSON (jsonSafeStringify, jsonSafeParser)
RECURSIVE Digits(_)
Digits(n) == IF n < 10 THEN <<48 + n>> ELSE Digits(n \div 10) \o <<48 + (n % 10)>>

\* Five decimal digits, zeros first
Pad5(n) ==
  <<48 + ((n \div 10000) % 10), 48 + ((n \div 1000) % 10), 48 + ((n \div 100) % 10),
    48 + ((n \div 10) % 10), 48 + (n % 10)>>

\* The decimal text of a number; 2^32 is 42949 * 10^5 + 67296
JsonNumber(x) ==
  LET low == (x.n % 100000) + (x.wraps * 67296)
      high == (x.n \div 100000) + (x.wraps * 42949) + (low \div 100000)
      whole == IF x.wraps = 0
               THEN (IF x.n >= 0 THEN Digits(x.n)
                     ELSE IF x.half THEN <<45>> \o Digits(-(x.n + 1))
                     ELSE IF x.n = MinInt32 THEN <<45>> \o Digits(21474) \o Pad5(83648)
                     ELSE <<45>> \o Digits(-x.n))
               ELSE Digits(high) \o Pad5(low % 100000)
  IN whole \o (IF x.half THEN <<46, 53>> ELSE <<>>)

RECURSIVE JsonText(_)
RECURSIVE JsonItems(_)
RECURSIVE JsonMembers(_)
JsonItems(e) ==
  IF e = <<>> THEN <<>>
  ELSE JsonText(Head(e)) \o (IF Len(e) > 1 THEN <<44>> ELSE <<>>) \o JsonItems(Tail(e))
JsonMembers(kv) ==
  IF kv = <<>> THEN <<>>
  ELSE <<34>> \o Head(kv)[1] \o <<34, 58>> \o JsonText(Head(kv)[2])
         \o (IF Len(kv) > 1 THEN <<44>> ELSE <<>>) \o JsonMembers(Tail(kv))
JsonText(v) ==
  CASE v.t = "null" -> <<110, 117, 108, 108>>
    [] v.t = "string" -> <<34>> \o v.chars \o <<34>>
    [] v.t = "number" -> JsonNumber(v)
    [] v.t = "array" -> <<91>> \o JsonItems(v.e) \o <<93>>
    [] v.t = "object" -> <<123>> \o JsonMembers(v.kv) \o <<125>>
    [] v.t = "marshalled" -> <<123, 34, 118, 34, 58>> \o JsonText(v.of) \o <<125>>

\* The numbers that are not non-negative 32-bit integers:
\* -1, -2^31, 2^31, 2^32 + 5, 1.5, 0.5, -0.5, -1.5
OtherNumbers ==
  {Integer(-1), Integer(MinInt32), Number(MinInt32, 1, FALSE), Number(5, 1, FALSE),
   Number(1, 0, TRUE), Number(0, 0, TRUE), Number(-1, 0, TRUE), Number(-2, 0, TRUE)}

Objects == {Obj(<<>>), Obj(<<<<<<97>>, Integer(1)>>>>)}

\* ---- serialize
RECURSIVE Serialize(_)
Serialize(data) ==
  IF data.t = "null" THEN <<0>>
  ELSE IF data.t = "string"
  THEN LET buffer == Utf8Encode(data.chars)
       IN <<1>> \o WriteInt32VQL(Len(buffer)) \o buffer
  ELSE IF data.t = "buffer"
  THEN <<6>> \o WriteInt32VQL(Len(data.bytes)) \o data.bytes
  ELSE IF data.t = "number" /\ or(data, 0) = data
  THEN <<2>> \o WriteInt32VQL(data.n)
  ELSE IF data.t = "array"
  THEN <<4>> \o WriteInt32VQL(Len(data.e))
         \o Flatten([k \in 1..Len(data.e) |-> Serialize(data.e[k])])
  ELSE IF data.t = "marshalled"
  THEN LET buffer == Utf8Encode(JsonText(data))
       IN <<5>> \o WriteInt32VQL(Len(buffer)) \o buffer
  ELSE LET buffer == Utf8Encode(JsonText(data))
       IN <<3>> \o WriteInt32VQL(Len(buffer)) \o buffer

\* ---- the values of a message envelope
\* 'timestamp', 'byteLength', 'a'
TimestampKey == <<116, 105, 109, 101, 115, 116, 97, 109, 112>>
ByteLengthKey == <<98, 121, 116, 101, 76, 101, 110, 103, 116, 104>>
CallerHeaders == {<<>>, <<<<<<97>>, Integer(1)>>>>}
Timestamps == {1000, 2000}
Topics == {<<>>, <<116>>}
Payloads ==
  {Null, Str(<<>>), Str(<<97>>), Integer(0), Integer(128), Integer(-1),
   Number(1, 0, TRUE), Obj(<<<<<<97>>, Integer(1)>>>>), Arr(<<Str(<<97>>), Integer(1)>>)}

\* try { serialize(writer, Marshalling.encode(payload)) } catch { serialize(writer, payload) }
\* Binary data (a ciphertext taken for the payload) goes the catch way.
SerializePayload(payload, accepts) ==
  IF accepts /\ payload.t # "buffer" THEN Serialize(Marshalled(payload)) ELSE Serialize(payload)

\* { ...init.headers, timestamp: timestamp(), byteLength: payload.byteLength - 1 }
MessageHeaders(headers, now, byteLength) ==
  Obj(headers \o <<<<TimestampKey, Integer(now)>>, <<ByteLengthKey, Integer(byteLength)>>>>)

\* What crypto.encrypt can return
Block(b) == [k \in 1..16 |-> b]
Ciphertexts == {Block(9), Block(9) \o Block(8)}

EnvelopeHeaders ==
  {MessageHeaders(h, now, Len(SerializePayload(p, accepts)) - 1) :
     h \in CallerHeaders, now \in Timestamps, p \in Payloads, accepts \in BOOLEAN}
  \cup {MessageHeaders(h, now, Len(c) - 1) :
          h \in CallerHeaders, now \in Timestamps, c \in Ciphertexts}

\* The values whose JSON text the parser is given
JsonValues ==
  OtherNumbers \cup Objects \cup {Null, Integer(0), Integer(1), Str(<<97>>)}
    \cup EnvelopeHeaders

\* jsonSafeParser: the value the text stands for, or a Left
JsonParse(chars) ==
  IF \E v \in JsonValues : JsonText(v) = chars
  THEN [err |-> NoError, value |-> CHOOSE v \in JsonValues : JsonText(v) = chars]
  ELSE [err |-> "ERR_JSON_PARSE", value |-> Null]

\* jsonSafeParser, then Marshalling.revive
Revive(chars) ==
  IF \E v \in Payloads : JsonText(Marshalled(v)) = chars
  THEN [err |-> NoError, value |-> CHOOSE v \in Payloads : JsonText(Marshalled(v)) = chars]
  ELSE [err |-> "ERR_JSON_PARSE", value |-> Null]

\* ---- deserialize
Fail(err, cursor) == [err |-> err, value |-> Null, cursor |-> cursor]
Done(value, cursor) == [err |-> NoError, value |-> value, cursor |-> cursor]

\* reader.read(readIntVQL(reader))
ReadSized(buffer, cursor) ==
  LET len == ReadIntVQL(buffer, cursor)
  IN IF len.err # NoError
     THEN [err |-> len.err, chunk |-> <<>>, cursor |-> len.cursor]
     ELSE Read(buffer, len.cursor, len.value)

RECURSIVE Deserialize(_, _)
RECURSIVE DeserializeItems(_, _, _, _)
DeserializeItems(buffer, cursor, len, items) ==
  IF Len(items) >= len THEN Done(Arr(items), cursor)
  ELSE CHOOSE outcome \in
         {IF item.err # NoError THEN Fail(item.err, item.cursor)
          ELSE DeserializeItems(buffer, item.cursor, len, Append(items, item.value)) :
            item \in {Deserialize(buffer, cursor)}} : TRUE
Deserialize(buffer, cursor) ==
  LET tag == Read(buffer, cursor, 1)
  IN IF tag.err # NoError THEN Fail(tag.err, tag.cursor)
     ELSE LET dataType == tag.chunk[1]
              sized == ReadSized(buffer, tag.cursor)
              uint == ReadIntVQL(buffer, tag.cursor)
          IN CASE dataType = 0 -> Done(Null, tag.cursor)
               [] dataType = 1 ->
                    IF sized.err # NoError THEN Fail(sized.err, sized.cursor)
                    ELSE Done(Str(Utf8Decode(sized.chunk)), sized.cursor)
               [] dataType = 2 ->
                    IF uint.err # NoError THEN Fail(uint.err, uint.cursor)
                    ELSE Done(Integer(uint.value), uint.cursor)
               [] dataType = 6 ->
                    IF sized.err # NoError THEN Fail(sized.err, sized.cursor)
                    ELSE Done(Bin(sized.chunk), sized.cursor)
               [] dataType = 4 ->
                    IF uint.err # NoError THEN Fail(uint.err, uint.cursor)
                    ELSE DeserializeItems(buffer, uint.cursor, uint.value, <<>>)
               [] dataType = 3 ->
                    IF sized.err # NoError THEN Fail(sized.err, sized.cursor)
                    ELSE LET json == JsonParse(Utf8Decode(sized.chunk))
                         IN IF json.err # NoError THEN Fail(json.err, sized.cursor)
                            ELSE Done(json.value, sized.cursor)
               [] dataType = 5 ->
                    IF sized.err # NoError THEN Fail(sized.err, sized.cursor)
                    ELSE LET json == Revive(Utf8Decode(sized.chunk))
                         IN IF json.err # NoError THEN Fail(json.err, sized.cursor)
                            ELSE Done(json.value, sized.cursor)
               [] OTHER -> Fail("ERR_UNSUPPORTED_OPERATION", tag.cursor)

\* ---- the inputs
Strings == {<<>>, <<97>>, <<233, 98>>}
ByteStrings == {<<>>, <<0>>, <<255, 1>>}
Integers32 ==
  {0, 1, 127, 128, 16383, 16384, 2097151, 2097152, 268435455, 268435456, MaxInt32}
Scalars ==
  {Null} \cup {Str(s) : s \in Strings} \cup {Bin(b) : b \in ByteStrings}
         \cup {Integer(n) : n \in Integers32}
Elements == {Null, Str(<<>>), Str(<<97>>), Integer(128), Bin(<<>>), Arr(<<>>)}
Tuples(S, len) == UNION {[1..k -> S] : k \in 0..len}
Arrays ==
  {Arr(e) : e \in Tuples(Elements, MaxArrayLen)}
    \cup {Arr(<<Arr(<<x>>)>>) : x \in Elements}
\* null, strings, integers in 0..2^31-1, byte sequences, arrays of these
PlainValues == Scalars \cup Arrays
Values == PlainValues \cup OtherNumbers \cup Objects
VQLInputs == Integers32 \cup {-1, MinInt32}

Result(op, from, n, r) ==
  [op |-> op, from |-> from, n |-> n, err |-> r.err,
   value |-> IF "value" \in DOMAIN r THEN r.value ELSE Null,
   chunk |-> IF "chunk" \in DOMAIN r THEN r.chunk ELSE <<>>]

CodecFrame == UNCHANGED <<evars, svars, hvars, tvars, wvars, mvars, yvars>>

CodecInit ==
  /\ listeners = EmptyMap
  /\ maxListeners = InitialMax(0)
  /\ disposed = FALSE
  /\ called = {}
  /\ stack = <<>>
  /\ last = Call("none", "-", NoCallback, "-")
  /\ NoSocket
  /\ NoServer
  /\ NoWebhook
  /\ NoCodec
  /\ NoEnvelope
  /\ NoMore

\* serialize(writer, data) on a fresh BufferWriter
CodecSerialize(data) ==
  /\ input.op = "-"
  /\ input' = [op |-> "serialize", value |-> data]
  /\ writer' = Serialize(data)
  /\ UNCHANGED <<reader, result>>
  /\ CodecFrame

\* writeInt32VQL(writer, value) on a fresh BufferWriter
CodecWriteInt(value) ==
  /\ input.op = "-"
  /\ input' = [op |-> "writeInt32VQL", value |-> Integer(value)]
  /\ writer' = WriteInt32VQL(value)
  /\ UNCHANGED <<reader, result>>
  /\ CodecFrame

\* new BufferReader(writer.drain())
CodecDrain ==
  /\ writer # <<>>
  /\ reader' = Reader(writer, TRUE)
  /\ writer' = <<>>
  /\ UNCHANGED <<input, result>>
  /\ CodecFrame

\* new BufferReader over the first k bytes written: the rest never arrived
CodecTruncate(k) ==
  /\ writer # <<>>
  /\ k < Len(writer)
  /\ reader' = Reader(SubSeq(writer, 1, k), FALSE)
  /\ writer' = <<>>
  /\ UNCHANGED <<input, result>>
  /\ CodecFrame

CodecDeserialize ==
  /\ reader.open
  /\ LET r == Deserialize(reader.buffer, reader.cursor)
     IN /\ result' = Result("deserialize", reader.cursor, 0, r)
        /\ reader' = [reader EXCEPT !.cursor = r.cursor]
  /\ UNCHANGED <<input, writer>>
  /\ CodecFrame

CodecReadInt ==
  /\ reader.open
  /\ LET r == ReadIntVQL(reader.buffer, reader.cursor)
     IN /\ result' = Result("readIntVQL", reader.cursor, 0, [r EXCEPT !.value = Integer(@)])
        /\ reader' = [reader EXCEPT !.cursor = r.cursor]
  /\ UNCHANGED <<input, writer>>
  /\ CodecFrame

CodecRead(bytes) ==
  /\ reader.open
  /\ LET r == Read(reader.buffer, reader.cursor, bytes)
     IN /\ result' = Result("read", reader.cursor, bytes, r)
        /\ reader' = [reader EXCEPT !.cursor = r.cursor]
  /\ UNCHANGED <<input, writer>>
  /\ CodecFrame

CodecNext ==
  \/ \E data \in Values : CodecSerialize(data)
  \/ \E value \in VQLInputs : CodecWriteInt(value)
  \/ CodecDrain
  \/ \E k \in 0..(Len(writer) - 1) : CodecTruncate(k)
  \/ CodecDeserialize
  \/ CodecReadInt
  \/ \E bytes \in 0..MaxRead : CodecRead(bytes)

SpecProtocol == CodecInit /\ [][CodecNext]_vars

\* ----------------------------------------------------------------- messages
\* createMessage with or without an encryption key, and parseMessage without
\* one.  The digest is an ideal one: two byte sequences have the same digest
\* only if they are equal, and a digest is written as the bytes it was
\* computed from.  The cipher is outside the repository: what it returns is
\* some whole number of 16-byte blocks, chosen by the environment.
Sha512Id == 7
\* 'sha512'
Sha512Name == <<115, 104, 97, 53, 49, 50>>

\* SignAlgorithmsToString[algorithm] for a number, then `case 'sha512'`
Implemented(algorithm) ==
  algorithm = Integer(Sha512Id) \/ algorithm = Str(Sha512Name)

\* createHash('sha512') fed with the bytes, 3072 at a time
Sha512(data) == data

sign(algorithm, payload, headers, accepts) ==
  IF Implemented(algorithm)
  THEN [err |-> NoError,
        digest |-> Sha512(Serialize(headers) \o SerializePayload(payload, accepts))]
  ELSE [err |-> "ERR_NOT_IMPLEMENTED", digest |-> <<>>]

\* The six writes of createMessage, as one sequence each
FrameOf(topic, flag, headers, body, algorithm, signature) ==
  <<Serialize(topic), Serialize(flag), Serialize(headers), body,
    Serialize(algorithm), Serialize(signature)>>

\* key: init.encryptionKey is given; sealed: what crypto.encrypt returns
encryptIfKey(payload, key, sealed) == IF key THEN sealed ELSE payload

createMessageFlagFirst(topic, payload, headers, now, accepts, key, sealed) ==
  LET body == encryptIfKey(SerializePayload(payload, accepts), key, sealed)
      h == MessageHeaders(headers, now, Len(body) - 1)
      signature == sign(Str(Sha512Name), payload, h, accepts).digest
      f == FrameOf(Str(topic), Integer(IF key THEN 1 ELSE 0), h,
                   IF key THEN Serialize(Bin(body)) ELSE body,
                   Integer(Sha512Id), Bin(signature))
  IN <<f[2], f[1], f[3], f[4], f[5], f[6]>>

createMessage(topic, payload, headers, now, accepts, key, sealed) ==
  LET body == encryptIfKey(SerializePayload(payload, accepts), key, sealed)
      h == MessageHeaders(headers, now, Len(body) - 1)
      signature == sign(Str(Sha512Name), payload, h, accepts).digest
  IN FrameOf(Str(topic), Integer(IF key THEN 1 ELSE 0), h,
             IF key THEN Serialize(Bin(body)) ELSE body,
             Integer(Sha512Id), Bin(signature))

Rejected(err) == [done |-> TRUE, err |-> err, topic |-> Null, headers |-> Null, payload |-> Null]

\* The deserialize calls of parseMessage, each starting where the one before
\* stopped; the results up to the first that throws
RECURSIVE DecodeFields(_, _, _)
DecodeFields(message, cursor, count) ==
  IF count = 0 THEN <<>>
  ELSE CHOOSE decoded \in
         {IF d.err # NoError THEN <<d>>
          ELSE <<d>> \o DecodeFields(message, d.cursor, count - 1) :
            d \in {Deserialize(message, cursor)}} : TRUE

\* parseMessage once the fields are decoded: f holds topic, encrypted flag,
\* headers, payload, algorithm id and signature, or ends with the error
ValidateSignatureFirst(f, accepts) ==
  LET cs == sign(f[5].value, f[4].value, f[3].value, accepts)
  IN IF f[Len(f)].err # NoError THEN Rejected(f[Len(f)].err)
     ELSE IF cs.err # NoError THEN Rejected(cs.err)
     ELSE IF f[6].value.t # "buffer" THEN Rejected("ERR_INVALID_ARG_TYPE")
     ELSE IF cs.digest # f[6].value.bytes THEN Rejected("ERR_INVALID_SIGNATURE")
     ELSE IF f[2].value = Integer(1) /\ f[4].value.t = "buffer"
     THEN Rejected("ERR_INVALID_ARGUMENT")
     ELSE [done |-> TRUE, err |-> NoError, topic |-> f[1].value,
           headers |-> f[3].value, payload |-> f[4].value]

Validate(f, accepts) ==
  LET cs == sign(f[5].value, f[4].value, f[3].value, accepts)
  IN IF Len(f) <= 4 /\ f[Len(f)].err # NoError THEN Rejected(f[Len(f)].err)
     ELSE IF f[2].value = Integer(1) /\ f[4].value.t = "buffer"
     THEN Rejected("ERR_INVALID_ARGUMENT")
     ELSE IF f[5].err # NoError THEN Rejected(f[5].err)
     ELSE IF cs.err # NoError THEN Rejected(cs.err)
     ELSE IF f[6].err # NoError THEN Rejected(f[6].err)
     ELSE IF f[6].value.t # "buffer" THEN Rejected("ERR_INVALID_ARG_TYPE")
     ELSE IF cs.digest # f[6].value.bytes THEN Rejected("ERR_INVALID_SIGNATURE")
     ELSE [done |-> TRUE, err |-> NoError, topic |-> f[1].value,
           headers |-> f[3].value, payload |-> f[4].value]

parseMessage(message, accepts) ==
  CHOOSE outcome \in {Validate(f, accepts) : f \in {DecodeFields(message, 0, 6)}} : TRUE

\* The contents a field of the frame in flight can be given
Replacements(k) ==
  CASE k = 1 -> {Serialize(Str(t)) : t \in Topics}
    [] k = 2 -> {Serialize(Integer(0)), Serialize(Integer(1))}
    [] k = 3 -> {Serialize(MessageHeaders(h, now, Len(fields[4]) - 1)) :
                   h \in CallerHeaders, now \in Timestamps}
    [] k = 4 -> {SerializePayload(p, marshals) : p \in Payloads}
    [] k = 5 -> {Serialize(Integer(Sha512Id)), Serialize(Integer(Sha512Id + 1))}
    [] k = 6 -> {Serialize(Bin(<<0>>)), Serialize(Bin(fields[3]))}

EnvelopeFrame == UNCHANGED <<evars, svars, hvars, tvars, wvars, pvars, yvars>>

EnvelopeInit ==
  /\ listeners = EmptyMap
  /\ maxListeners = InitialMax(0)
  /\ disposed = FALSE
  /\ called = {}
  /\ stack = <<>>
  /\ last = Call("none", "-", NoCallback, "-")
  /\ NoSocket
  /\ NoServer
  /\ NoWebhook
  /\ NoCodec
  /\ NoMore
  /\ marshals \in BOOLEAN
  /\ sent = [topic |-> <<>>, payload |-> [t |-> "null"], headers |-> <<>>, now |-> 0,
             key |-> FALSE]
  /\ fields = <<>>
  /\ tampered = 0
  /\ parsed = [done |-> FALSE, err |-> "-", topic |-> [t |-> "null"],
               headers |-> [t |-> "null"], payload |-> [t |-> "null"]]

EnvelopeCreate(topic, payload, headers, now, key, sealed) ==
  /\ fields = <<>>
  /\ sent' = [topic |-> topic, payload |-> payload, headers |-> headers, now |-> now,
              key |-> key]
  /\ fields' = createMessage(topic, payload, headers, now, marshals, key, sealed)
  /\ UNCHANGED <<marshals, tampered, parsed>>
  /\ EnvelopeFrame

\* Between createMessage and parseMessage the content of one field changes
EnvelopeTamper(k, bytes) ==
  /\ fields # <<>>
  /\ tampered = 0
  /\ ~parsed.done
  /\ bytes # fields[k]
  /\ fields' = [fields EXCEPT ![k] = bytes]
  /\ tampered' = k
  /\ UNCHANGED <<marshals, sent, parsed>>
  /\ EnvelopeFrame

EnvelopeParse ==
  /\ fields # <<>>
  /\ ~parsed.done
  /\ parsed' = parseMessage(Flatten(fields), marshals)
  /\ UNCHANGED <<marshals, sent, fields, tampered>>
  /\ EnvelopeFrame

EnvelopeNext ==
  \/ \E topic \in Topics, payload \in Payloads, headers \in CallerHeaders, now \in Timestamps,
        key \in BOOLEAN :
       \E sealed \in IF key THEN Ciphertexts ELSE {<<>>} :
         EnvelopeCreate(topic, payload, headers, now, key, sealed)
  \/ \E k \in 1..6 : fields # <<>> /\ \E bytes \in Replacements(k) : EnvelopeTamper(k, bytes)
  \/ EnvelopeParse

SpecEnvelope == EnvelopeInit /\ [][EnvelopeNext]_vars

\* ------------------------------------ EventEmitter, listeners that call back
\* Under SpecReentrant a listener that is running makes calls into the
\* emitter: the frames of the emit() calls in progress see what those calls
\* do to the Map and to the arrays.  One event name, two functions, each
\* registered at most once, so that a callback names one subscription.
\* Listeners return normally: one that gets an exception from the emitter
\* catches it.
MaxDepth == 2   \* emit() calls in progress at once
MaxRuns == 2    \* invocations counted for one subscription

ReName == "a"
ReCallbacks == {Fn(1), Fn(2)}

ReFrame == UNCHANGED <<svars, hvars, tvars, wvars, pvars, mvars, bvars, avars>>

\* `during` once a call of op was made
Note(op) == [k \in DOMAIN during |-> during[k] \cup {op}]

ReInit ==
  /\ listeners = EmptyMap
  /\ maxListeners = InitialMax(0)
  /\ disposed = FALSE
  /\ called = {}
  /\ stack = <<>>
  /\ last = Call("none", "-", NoCallback, "-")
  /\ NoSocket
  /\ NoServer
  /\ NoWebhook
  /\ NoCodec
  /\ NoEnvelope
  /\ NoPublish
  /\ NoEventObject
  /\ regs = {}
  /\ runs = [c \in ReCallbacks |-> 0]
  /\ during = <<>>

ReAdd(callback, once) ==
  /\ CanCall
  /\ \A s \in regs : s.callback # callback
  /\ AddListener(ReName, callback, once)
  /\ regs' = IF ReName \in DOMAIN listeners'
                  /\ \E k \in 1..Len(listeners'[ReName]) :
                       listeners'[ReName][k].callback = callback
             THEN regs \cup {[callback |-> callback, once |-> once]}
             ELSE regs
  /\ during' = Note("addListener")
  /\ UNCHANGED runs
  /\ ReFrame

ReRemove(callback) ==
  /\ CanCall
  /\ RemoveListener(ReName, callback)
  /\ during' = Note("removeListener")
  /\ UNCHANGED <<regs, runs>>
  /\ ReFrame

ReRemoveMany ==
  /\ CanCall
  /\ RemoveManyListeners(ReName)
  /\ during' = Note("removeManyListeners")
  /\ UNCHANGED <<regs, runs>>
  /\ ReFrame

ReRemoveAll ==
  /\ CanCall
  /\ RemoveAllListeners
  /\ during' = Note("removeAllListeners")
  /\ UNCHANGED <<regs, runs>>
  /\ ReFrame

ReDispose ==
  /\ CanCall
  /\ Dispose
  /\ during' = Note("dispose")
  /\ UNCHANGED <<regs, runs>>
  /\ ReFrame

ReEmit ==
  /\ CanCall
  /\ Len(stack) < MaxDepth
  /\ Emit(ReName)
  /\ during' = IF Len(stack') > Len(stack) THEN Append(Note("emit"), {}) ELSE Note("emit")
  /\ UNCHANGED <<regs, runs>>
  /\ ReFrame

ReDispatch ==
  /\ EmitDispatch
  /\ runs' = IF stack'[Len(stack)].pc = "cb"
             THEN [runs EXCEPT ![FrameArr(Top)[Top.i].callback] = Min(@ + 1, MaxRuns)]
             ELSE runs
  /\ UNCHANGED <<regs, during>>
  /\ ReFrame

ReAfter ==
  /\ EmitAfter
  /\ UNCHANGED rvars
  /\ ReFrame

ReEnd ==
  /\ EmitEnd
  /\ during' = SubSeq(during, 1, Len(during) - 1)
  /\ UNCHANGED <<regs, runs>>
  /\ ReFrame

ReNext ==
  \/ \E c \in ReCallbacks, once \in BOOLEAN : ReAdd(c, once)
  \/ \E c \in ReCallbacks : ReRemove(c)
  \/ ReRemoveMany
  \/ ReRemoveAll
  \/ ReDispose
  \/ ReEmit
  \/ ReDispatch
  \/ ReAfter
  \/ ReEnd

SpecReentrant == ReInit /\ [][ReNext]_vars

\* ------------------------------------------------- TCPSocket, backpressure
\* Under SpecBackpressure a connection only connects, writes and drains, so
\* that the writes the stream refuses can outnumber the listeners the
\* emitter allows for one event.
MaxPending == 33   \* writes the stream refuses over a connection's life

BackNext ==
  \/ (UNCHANGED <<hvars, tvars, xvars>> /\ SockConnect)
  \/ (UNCHANGED <<hvars, tvars, xvars>> /\ SockConnected)
  \/ (UNCHANGED <<hvars, tvars, xvars>> /\ \E op \in {"send", "write"}, accepted \in BOOLEAN :
         (accepted \/ closures < MaxPending) /\ SockWrite(op, accepted))
  \/ (UNCHANGED <<hvars, tvars, xvars>> /\ SockDrain)

SpecBackpressure == SockInit /\ [][BackNext]_vars

\* --------------------------------------------------- publishWebhookMessage
\* The node:http branch: a BufferReader over the message, and a loop that
\* hands the request one chunk per iteration.
MaxLength == 40    \* the short messages are 0..MaxLength bytes long
ChunkBytes == 3072

\* A message of len bytes
Message(len) == [k \in 1..len |-> k % 256]

\* Short messages, and messages around one, two and three chunks
MessageLengths ==
  (0..MaxLength) \cup {n * ChunkBytes + d : n \in 1..3, d \in {-1, 0, 1}}

\* reader.byteLength
ByteLength(r) == Len(r.buffer) - r.cursor

PublishFrame == UNCHANGED <<evars, svars, hvars, tvars, wvars, pvars, mvars, rvars, avars>>

PublishInit ==
  /\ listeners = EmptyMap
  /\ maxListeners = InitialMax(0)
  /\ disposed = FALSE
  /\ called = {}
  /\ stack = <<>>
  /\ last = Call("none", "-", NoCallback, "-")
  /\ NoSocket
  /\ NoServer
  /\ NoWebhook
  /\ NoCodec
  /\ NoEnvelope
  /\ NoHistory
  /\ NoEventObject
  /\ NoPublish

\* publishWebhookMessage(address, message) up to the loop
PublishStart(len) ==
  /\ pub.pc = "idle"
  /\ pub' = [pc |-> "loop", buffer |-> Message(len), cursor |-> 0, i |-> 0, chunks |-> <<>>]
  /\ PublishFrame

\* One iteration: `i < reader.byteLength`, req.write(reader.read(1024 * 3)),
\* `i += 1024 * 3`
PublishWrite ==
  /\ pub.pc = "loop"
  /\ pub.i < ByteLength(pub)
  /\ LET r == Read(pub.buffer, pub.cursor, ChunkBytes)
     IN pub' = IF r.err # NoError
               THEN [pub EXCEPT !.pc = r.err]
               ELSE [pub EXCEPT !.chunks = Append(@, r.chunk), !.cursor = r.cursor,
                                !.i = @ + ChunkBytes]
  /\ PublishFrame

\* The loop is over: req.end()
PublishEnd ==
  /\ pub.pc = "loop"
  /\ ~(pub.i < ByteLength(pub))
  /\ pub' = [pub EXCEPT !.pc = "ended"]
  /\ PublishFrame

PublishNext ==
  \/ \E len \in MessageLengths : PublishStart(len)
  \/ PublishWrite
  \/ PublishEnd

SpecPublish == PublishInit /\ [][PublishNext]_vars

\* ------------------------------------------------------------ AbstractEvent
\* One event object: dispatch, cancel, dispose, and the settling of the
\* thenables its callback returned.  The callback returns normally.
MaxDispatch == 3   \* dispatch() calls on the event object
ReturnValues == {1, 2}

EventFrame == UNCHANGED <<evars, svars, hvars, tvars, wvars, pvars, mvars, rvars, bvars>>

EventInit ==
  /\ listeners = EmptyMap
  /\ maxListeners = InitialMax(0)
  /\ disposed = FALSE
  /\ called = {}
  /\ stack = <<>>
  /\ last = Call("none", "-", NoCallback, "-")
  /\ NoSocket
  /\ NoServer
  /\ NoWebhook
  /\ NoCodec
  /\ NoEnvelope
  /\ NoHistory
  /\ NoPublish
  /\ \E once \in BOOLEAN, cancellable \in BOOLEAN :
       ev = [once |-> once, cancellable |-> cancellable, canceled |-> FALSE,
             disposed |-> FALSE, calls |-> 0, invoked |-> 0, results |-> <<>>,
             pending |-> <<>>]

\* cancel(reason)
CancelResult(e) == IF e.cancellable THEN [e EXCEPT !.canceled = TRUE] ELSE e

\* dispatch(payload, target); the callback returns value, or a thenable
\* that will resolve to it
EventDispatch(value, thenable) ==
  /\ ev.calls < MaxDispatch
  /\ ev' = IF (ev.once /\ ev.calls > 0) \/ ev.disposed
           THEN ev
           ELSE IF thenable
           THEN [ev EXCEPT !.invoked = @ + 1, !.calls = @ + 1,
                           !.pending = Append(@, value)]
           ELSE [ev EXCEPT !.invoked = @ + 1, !.calls = @ + 1,
                           !.results = Append(@, value)]
  /\ EventFrame

\* A thenable resolves: `value => void this.#results.push(value)`
EventResolve(k) ==
  /\ k \in 1..Len(ev.pending)
  /\ ev' = [ev EXCEPT !.results = Append(@, ev.pending[k]),
                      !.pending = RemoveAt(ev.pending, k)]
  /\ EventFrame

EventCancel ==
  /\ ev' = CancelResult(ev)
  /\ EventFrame

\* dispose()
EventDispose ==
  /\ ~ev.disposed
  /\ ev' = [CancelResult(ev) EXCEPT !.results = <<>>, !.disposed = TRUE]
  /\ EventFrame

EventNext ==
  \/ \E value \in ReturnValues, thenable \in BOOLEAN : EventDispatch(value, thenable)
  \/ \E k \in 1..MaxDispatch : EventResolve(k)
  \/ EventCancel
  \/ EventDispose

SpecEvent == EventInit /\ [][EventNext]_vars

\* ------------------------------------------------------------------ claims
\* A frame whose loop is over: emit() is about to return true.
LoopOver(f) == f.pc = "loop" /\ f.i > Len(FrameArr(f))
Entry(event) == IF event \in DOMAIN listeners THEN listeners[event] ELSE <<>>
\* The dispatches of one emit() call that reach the function fn
Reaching(f, fn) == {j \in 1..Len(f.log) : Underlying(f.log[j].callback) = fn}
EventEntries(subs, fn) ==
  {j \in 1..Len(subs) : IsEvent(subs[j].callback) /\ Underlying(subs[j].callback) = fn}

C2_OnceRemovedAfterLoop ==
  /\ [](\A k \in DOMAIN stack :
          LET f == stack[k]
          IN ~f.mut =>
               /\ Entry(f.name) = f.start
               /\ f.del \subseteq {j \in 1..Len(f.start) : f.start[j].once}
               /\ LoopOver(f) =>
                    /\ f.del = {j \in 1..Len(f.start) : f.start[j].once}
                    /\ \A j \in 1..Len(f.start) :
                         Cardinality({m \in 1..Len(f.log) :
                                        f.log[m].callback = f.start[j].callback}) = 1)
  /\ [][(EmitEnd /\ ~Top.mut) =>
          /\ listeners'[Top.name] = Persistent(Top.start)
          /\ \A n \in DOMAIN listeners \ {Top.name} : listeners'[n] = listeners[n]
          /\ DOMAIN listeners' = DOMAIN listeners]_vars

C2_Witness ==
  \E k \in DOMAIN stack :
    LET f == stack[k]
    IN /\ LoopOver(f)
       /\ \E i, j \in 1..Len(f.start) : f.start[i].once /\ ~f.start[j].once /\ i < j
       /\ Cardinality(f.del) >= 2

\* The callback is registered already as a bare function, or bare one time
\* and wrapped in an event object the other time.
BareDuplicate(prev, callback) ==
  \E k \in 1..Len(prev) :
    /\ Underlying(prev[k].callback) = Underlying(callback)
    /\ ~(IsEvent(prev[k].callback) /\ IsEvent(callback))

\* C3: addListener of a callback whose function is already registered for
\* the name (bare both times, or bare once and wrapped once) leaves the list
\* unchanged, so no list holds the function twice that way and an emit of
\* the name dispatches to it once.
C3_DuplicateAddIsNoOp ==
  /\ [][\A r \in Registrations :
          (~disposed /\ BareDuplicate(Entry(r[1]), r[2]) /\ AddListener(r[1], r[2], r[3]))
            => (listeners' = listeners /\ last'.res = "ok")]_vars
  /\ [](\A n \in DOMAIN listeners : \A i, j \in 1..Len(listeners[n]) :
          (i # j /\ Underlying(listeners[n][i].callback) = Underlying(listeners[n][j].callback))
            => (IsEvent(listeners[n][i].callback) /\ IsEvent(listeners[n][j].callback)))
  /\ [](\A k \in DOMAIN stack : \A fn \in Functions :
          LET f == stack[k]
          IN (/\ ~f.mut
              /\ LoopOver(f)
              /\ \E j \in 1..Len(f.start) : Underlying(f.start[j].callback) = fn
              /\ Cardinality(EventEntries(f.start, fn)) <= 1)
               => Cardinality(Reaching(f, fn)) = 1)

C3_Witness ==
  /\ last.op = "addListener"
  /\ last.res = "ok"
  /\ IsEvent(last.callback)
  /\ \E k \in 1..Len(Entry(last.event)) : Entry(last.event)[k].callback = Inspect(last.callback)

\* C4: two distinct event objects that wrap the same callback, registered
\* for the same name, yield one subscription.
C4_OneSubscriptionPerWrappedCallback ==
  \A n \in DOMAIN listeners : \A i, j \in 1..Len(listeners[n]) :
    i # j => Underlying(listeners[n][i].callback) # Underlying(listeners[n][j].callback)

\* The callback's function is not registered for the name in any form.
Distinct(prev, callback) ==
  \A k \in 1..Len(prev) : Underlying(prev[k].callback) # Underlying(callback)

\* C5: addListener of a callback distinct from those registered succeeds
\* and appends it while the name has fewer than maxListeners subscriptions;
\* when the name has maxListeners of them (or more) it raises and leaves
\* the list and the maximum unchanged.
C5_CapEnforced ==
  [][\A r \in Registrations :
       LET prev == Entry(r[1])
       IN (~disposed /\ Distinct(prev, r[2]) /\ AddListener(r[1], r[2], r[3])) =>
            IF Len(prev) < maxListeners
            THEN /\ last'.res = "ok"
                 /\ listeners'[r[1]] = Append(prev, [callback |-> r[2], once |-> r[3]])
            ELSE /\ last'.res = "raise"
                 /\ listeners'[r[1]] = prev
                 /\ maxListeners' = maxListeners]_vars

C5_Witness ==
  /\ last.op = "addListener"
  /\ last.res = "raise"
  /\ ~disposed
  /\ maxListeners >= 2
  /\ Len(Entry(last.event)) = maxListeners
  /\ Distinct(Entry(last.event), last.callback)

\* C6: emit returns true exactly when the name has at least one
\* subscription at the time of the call, and false otherwise.
C6_EmitReportsSubscriptions ==
  /\ (last.op = "emit" /\ last.res = "false") => Entry(last.event) = <<>>
  /\ \A k \in DOMAIN stack : stack[k].start # <<>>

Mutators ==
  {"setMaxListeners", "addListener", "removeListener", "removeManyListeners",
   "removeAllListeners"}

\* C7: once dispose was called from outside a dispatch the emitter holds no
\* subscription in any later state, every mutator raises and changes
\* nothing, emit finds no listener and runs none, and a second dispose
\* changes nothing.
C7_DisposedIsInert ==
  /\ [](disposed => (listeners = EmptyMap /\ stack = <<>>))
  /\ [](disposed /\ last.op \in Mutators => last.res = "raise")
  /\ [](disposed /\ last.op = "emit" => last.res = "false")
  /\ [][disposed => UNCHANGED <<listeners, maxListeners, disposed, called, stack>>]_vars

C7_Witness ==
  /\ disposed
  /\ last.op = "addListener"
  /\ last.res = "raise"

ConnectionOps == {"connect", "send", "write", "on", "once", "off", "close"}

\* C8: Disposed is terminal for a TCP connection, and once dispose has run
\* each of connect, send, write, on, once, off and close fails with
\* ERR_RESOURCE_DISPOSED.
C8_DisposedRejectsEveryOperation ==
  (sock.disposed /\ last.op \in ConnectionOps) => last.res = "ERR_RESOURCE_DISPOSED"

\* C9: after close(), with dispose() never called by outside code and the
\* token never cancelled, send, write, on, once and off are never rejected
\* with ERR_RESOURCE_DISPOSED, also after the graceful shutdown is over.
C9_CloseAloneNeverRejects ==
  (/\ sock.closed
   /\ ~userDisposed
   /\ token = "active"
   /\ last.op \in {"send", "write", "on", "once", "off"})
    => last.res # "ERR_RESOURCE_DISPOSED"

\* C10: over any number of close() calls on a connection that is not
\* disposed the graceful shutdown is started once, 'close' is emitted at
\* most once and the owned cancellation source is cancelled once; the first
\* call starts the shutdown and a later one changes nothing.
C10_CloseIdempotent ==
  /\ [](endCalls <= 1 /\ closeEmits <= 1 /\ cancelCalls <= 1)
  /\ []((ending = "done" /\ source # "none") => (cancelCalls = 1 /\ source = "cancelled"))
  /\ []((sock.closed <=> ending # "no") /\ (ending = "no" <=> endCalls = 0))
  /\ [][(~sock.closed /\ ~sock.disposed /\ SockClose) =>
          (sock'.closed /\ ending' = "pending" /\ endCalls' = 1)]_vars
  /\ [][(sock.closed /\ ~sock.disposed /\ SockClose) =>
          UNCHANGED <<listeners, maxListeners, disposed, called, stack, svarsButEmitted>>]_vars

C10_Witness ==
  /\ last.op = "close"
  /\ last.res = "ok"
  /\ ~sock.disposed
  /\ ending = "done"
  /\ endCalls = 1
  /\ closeEmits = 1

\* C11: dispose() on a connection that is neither closed nor disposed starts
\* the graceful shutdown and leaves it closed and disposed; on a closed one
\* it starts nothing and leaves it disposed; a further dispose() changes
\* nothing and raises nothing.
C11_DisposeClosesThenMarks ==
  /\ [][(SockDispose /\ ~sock.disposed /\ ~sock.closed) =>
          (/\ sock'.closed /\ sock'.disposed /\ disposed'
           /\ ending' = "pending" /\ endCalls' = endCalls + 1)]_vars
  /\ [][(SockDispose /\ ~sock.disposed /\ sock.closed) =>
          (/\ sock'.closed /\ sock'.disposed /\ disposed'
           /\ UNCHANGED <<ending, endCalls, closeEmits, cancelCalls, source>>)]_vars
  /\ [][(SockDispose /\ sock.disposed) =>
          UNCHANGED <<listeners, maxListeners, disposed, called, stack, kind, sock,
                      connecting, wired, ending, needDrain, source, token, closures,
                      endCalls, closeEmits, cancelCalls, uncaught>>]_vars
  /\ [](last.op = "dispose" => (last.res = "ok" /\ sock.closed /\ sock.disposed))

C11_Witness ==
  /\ last.op = "dispose"
  /\ sock.closed /\ sock.disposed
  /\ ending = "pending" /\ endCalls = 1
  /\ audience # <<>>

\* C12: when dispose (by a call or by the token) finds the connection open
\* with 'close' listeners registered, the 'close' emitted once the graceful
\* shutdown is over runs those listeners.
C12_DisposeNotifiesCloseListeners ==
  [][(SockEndCallback /\ audience # <<>>) =>
       \E k \in DOMAIN emitted' :
         emitted'[k].event = "close" /\ emitted'[k].ran = audience]_vars

\* C13: a write the stream refuses returns false and leaves flushing false,
\* and the next drain of the stream sets flushing and emits 'flushing', on an
\* outbound and on an accepted connection alike.
C13_DrainRestoresFlushing ==
  /\ [][(\E op \in {"send", "write"} : ~sock.disposed /\ SockWrite(op, FALSE)) =>
          (last'.res = "false" /\ ~sock'.flushing)]_vars
  /\ [][SockDrain =>
          (sock'.flushing /\ \E k \in DOMAIN emitted' : emitted'[k].event = "flushing")]_vars

\* C14: every chunk that arrives on an accepted connection is passed on as
\* one 'data' event, in arrival order.
C14_ChunksSurfaceInOrder ==
  kind = "accepted" => surfaced = arrived

\* C15: a connection that reaches a server whose token is not cancelled,
\* from any remote end, gets a connection object, a registry entry under its
\* remote address and one 'connection' event that carries an optional
\* wrapping the object; with the token cancelled the raw stream is
\* terminated and the registry stays as it is.
C15_AcceptRegistersAndAnnounces ==
  [][\A r \in Remotes :
       SrvAccept(r) =>
         IF srvToken = "cancelled"
         THEN terminated' = terminated + 1 /\ UNCHANGED <<clients, conns>>
         ELSE /\ Len(conns') = Len(conns) + 1
              /\ clients' = Append(clients,
                               [addr |-> SocketAddr(r.address, r.port, r.family),
                                conn |-> Len(conns')])
              /\ Len(emitted') = 1
              /\ emitted'[1].event = "connection"
              /\ emitted'[1].payload = [optional |-> TRUE, conn |-> Len(conns')]]_vars

\* C16: while dispose() was never called on the server, the registry holds
\* exactly the connection objects that are not closed, and a send or write
\* of the server reaches no closed connection.
C16_RegistryHoldsOpenConnections ==
  ~disposed =>
    /\ \A k \in DOMAIN clients : ~conns[clients[k].conn].sock.closed
    /\ \A c \in DOMAIN conns :
         ~conns[c].sock.closed => \E k \in DOMAIN clients : clients[k].conn = c
    /\ (last.op \in {"send", "write"} /\ wrote.conn # 0) => ~conns[wrote.conn].sock.closed

\* C17: dispose() on a server that is not disposed raises nothing, closes
\* every registered connection and leaves the registry and the settings
\* empty and the server disposed; dispose() on a disposed server changes
\* nothing.
C17_DisposeClearsRegistry ==
  /\ [][(SrvDispose /\ ~srv.disposed) =>
          (/\ last'.res = "ok"
           /\ srv'.disposed
           /\ clients' = <<>>
           /\ settings' = EmptyMap
           /\ \A k \in DOMAIN clients : conns'[clients[k].conn].sock.closed)]_vars
  /\ [][(SrvDispose /\ srv.disposed) =>
          (last'.res = "ok" /\ UNCHANGED <<listeners, disposed, tvars>>)]_vars

\* C18: when the token of a server that is not disposed is cancelled, the
\* server has its shutdown started and is disposed when the cancellation
\* callback returns, and the callback raises ERR_TOKEN_CANCELLED exactly
\* when 'supress cancellation error' was not set to true.
C18_CancellationRaisesUnlessSuppressed ==
  [][(SrvTokenCancel /\ ~srv.disposed) =>
       (/\ srv'.disposed
        /\ handler' \in {"closing", "closed"}
        /\ last'.res = "ERR_TOKEN_CANCELLED"
              <=> GetSetting(settings, "supress cancellation error") # "true")]_vars

ServerOps == {"listen", "set", "get", "on", "once", "off", "close", "send", "write"}

\* C19: on a disposed server each of listen, set, get, on, once, off, close,
\* send and write fails with ERR_RESOURCE_DISPOSED.
C19_DisposedServerRejectsEveryOperation ==
  (srv.disposed /\ last.op \in ServerOps) => last.res = "ERR_RESOURCE_DISPOSED"

\* The registry entries whose address, port and family equal the target's
Matching(to) ==
  {k \in DOMAIN clients :
     /\ clients[k].addr.address = to.address
     /\ clients[k].addr.port = to.port
     /\ Family(clients[k].addr) = Family(to)}

Expected(r) ==
  IF ~r.at.listening THEN 503
  ELSE IF r.at.disposed THEN 503
  ELSE IF r.method = "OPTIONS" THEN 204
  ELSE IF r.method # "POST" THEN 405
  ELSE IF r.path # WebhookPath THEN 418
  ELSE IF r.body < 4 THEN 412
  ELSE IF hookOpts.maxMessageSize.defined /\ r.body > hookOpts.maxMessageSize.bytes THEN 413
  ELSE IF r.parses THEN 202
  ELSE 422

\* C21: the webhook answers each request with the status of the first
\* applicable rule, in this order: not listening 503, disposed 503, OPTIONS
\* 204, a method other than POST 405, a path other than /webhook 418, a body
\* shorter than 4 bytes 412, a body larger than maxMessageSize 413, an
\* envelope that parses 202, one that does not 422.
C21_FirstApplicableRuleAnswers ==
  req.status # 0 => req.status = Expected(req)

RECURSIVE CountOf(_, _)
CountOf(name, events) ==
  IF events = <<>> THEN 0
  ELSE (IF Head(events).name = name THEN 1 ELSE 0) + CountOf(name, Tail(events))

\* The request is a POST to the endpoint whose body passed both size checks
BodyAccepted(r) ==
  /\ r.method = "POST"
  /\ r.at.listening /\ ~r.at.disposed
  /\ ~OffEndpoint(r.path)
  /\ r.pc # "body"
  /\ r.body >= 4
  /\ hookOpts.maxMessageSize.defined => r.body <= hookOpts.maxMessageSize.bytes

\* C22: for a POST to the endpoint whose body passes both size checks,
\* raw-message is emitted exactly once, with the accumulated bytes, before
\* the parse; message is emitted exactly once, after raw-message, if and
\* only if the parse succeeds; the response is 202 if and only if it
\* succeeded.
C22_RawMessageThenMessage ==
  BodyAccepted(req) =>
    /\ CountOf("raw-message", req.events) = 1
    /\ Head(req.events) = HookEvent("raw-message", req.body)
    /\ req.pc = "parsing" => (req.events = <<HookEvent("raw-message", req.body)>> /\ req.status = 0)
    /\ req.pc = "done" =>
         /\ CountOf("message", req.events) = (IF req.parses THEN 1 ELSE 0)
         /\ req.parses => req.events[2].name = "message"
         /\ (req.status = 202) <=> req.parses

C22_Witness ==
  /\ BodyAccepted(req)
  /\ req.pc = "done"
  /\ req.parses
  /\ req.status = 202
  /\ req.events = <<HookEvent("raw-message", req.body), HookEvent("message", req.body)>>

\* The request would be accepted by an endpoint that is listening
ValidRequest(r) ==
  /\ r.method = "POST"
  /\ r.path = WebhookPath
  /\ r.at.listening /\ ~r.at.disposed
  /\ r.body >= 4
  /\ hookOpts.maxMessageSize.defined => r.body <= hookOpts.maxMessageSize.bytes
  /\ r.parses

\* C23: when the parse of a body fails the endpoint responds 422, emits
\* exactly one error event and no message, and its state is what it was
\* (listening, closed, disposed); a valid request that a listening endpoint
\* receives after such a failure is still answered 202.
C23_ParseFailureIsRecovered ==
  [][/\ (req.pc = "parsing" /\ ~req.parses /\ req'.pc = "done") =>
          /\ req'.status = 422
          /\ CountOf("error", req'.events) = 1
          /\ CountOf("message", req'.events) = 0
          /\ req'.raised = "-"
          /\ hook' = hook /\ http' = http /\ disposed' = disposed /\ timer' = timer
     /\ (req.pc # "done" /\ req'.pc = "done" /\ ValidRequest(req')
           /\ \E k \in DOMAIN served : served[k] = 422) =>
          req'.status = 202]_vars

C23_Witness ==
  /\ \E i, j \in DOMAIN served : i < j /\ served[i] = 422 /\ served[j] = 202
  /\ hook.listening /\ ~hook.closed /\ ~hook.disposed

\* C24: the deadline of connectionTimeout disposes the endpoint and raises
\* the timeout error only if listening has not completed by then; an
\* endpoint whose listening completed before the deadline stays listening
\* and is never disposed by the deadline timer.
C24_DeadlineSparesListeningEndpoint ==
  [][(timer = "armed" /\ timer' = "fired") =>
       /\ ~hook.listening
       /\ hook'.disposed
       /\ hookLog'[Len(hookLog')] = "ERR_TIMEOUT"]_vars

\* C25: for every value built from null, strings (the empty one included),
\* integers in 0..2^31-1, byte sequences (the empty one included) and
\* arrays of these (empty and nested ones included), serialize, then drain,
\* then deserialize returns an equal value.
C25_SerializeDeserializeRoundTrip ==
  (/\ input.op = "serialize"
   /\ input.value \in PlainValues
   /\ reader.whole
   /\ result.op = "deserialize"
   /\ result.from = 0) =>
    (result.err = NoError /\ result.value = input.value)

\* The number that seven-bit groups spell, lowest group first
RECURSIVE Base128(_)
Base128(bytes) ==
  IF bytes = <<>> THEN 0 ELSE (Head(bytes) % 128) + 128 * Base128(Tail(bytes))

\* C26: for every integer in 0..2^31-1, writeInt32VQL followed by
\* readIntVQL returns the integer; 0 is written as one zero byte; every
\* byte carries seven bits of the value, lowest group first, and has its
\* high bit set if and only if it is not the last.
C26_VarintRoundTrip ==
  (input.op = "writeInt32VQL" /\ input.value.n >= 0 /\ reader.whole) =>
    LET bytes == reader.buffer
    IN /\ Len(bytes) >= 1
       /\ input.value.n = 0 => bytes = <<0>>
       /\ \A k \in 1..Len(bytes) : (bytes[k] >= 128) <=> (k < Len(bytes))
       /\ Base128(bytes) = input.value.n
       /\ (result.op = "readIntVQL" /\ result.from = 0) =>
            /\ result.err = NoError
            /\ result.value = input.value
            /\ reader.cursor = Len(bytes)

C26_Witness ==
  /\ input.op = "writeInt32VQL"
  /\ input.value.n = MaxInt32
  /\ reader.whole
  /\ Len(reader.buffer) = 5
  /\ result.op = "readIntVQL"
  /\ result.from = 0
  /\ result.value = Integer(MaxInt32)

\* C27: a read past the end of the reader's bytes fails with
\* ERR_END_OF_STREAM and returns no bytes: read(n) with n larger than the
\* number of bytes remaining, and the read(1) of readIntVQL on an exhausted
\* reader (a varint whose last available byte has the continuation bit).
C27_ReadPastEndFails ==
  /\ (result.op = "read" /\ result.n > Len(reader.buffer) - result.from) =>
       (result.err = "ERR_END_OF_STREAM" /\ result.chunk = <<>>)
  /\ (/\ result.op = "readIntVQL"
      /\ \A k \in (result.from + 1)..Len(reader.buffer) : reader.buffer[k] >= 128) =>
       result.err = "ERR_END_OF_STREAM"

\* C28: serialize gives a number the UnsignedInt tag (2) only when it is a
\* non-negative integer that fits a 32-bit word; every negative integer and
\* every number that is not integral takes the JSON path (tag 3).
C28_UnsignedTagOnlyForUnsigned ==
  (input.op = "serialize" /\ input.value.t = "number" /\ writer # <<>>) =>
    LET x == input.value
        negative == x.wraps < 0 \/ (x.wraps = 0 /\ x.n < 0)
        word == (x.wraps = 0 /\ x.n >= 0) \/ (x.wraps = 1 /\ x.n < 0)
    IN /\ writer[1] = 2 => (~x.half /\ word)
       /\ (negative \/ x.half) => writer[1] = 3

\* The frame as createMessage left it, made without an encryption key
Untouched == fields # <<>> /\ tampered = 0 /\ ~sent.key

\* C29: for every topic T, payload P and headers H, with no encryption key,
\* parseMessage(createMessage(T, P, H)) succeeds and returns topic T, payload
\* P and headers holding the entries of H, a timestamp and a byteLength; the
\* frame carries six fields in the order topic, encrypted flag, headers,
\* payload, algorithm id, signature, and parsing reads them in that order.
C29_EnvelopeRoundTrip ==
  Untouched =>
    LET f == DecodeFields(Flatten(fields), 0, 6)
    IN /\ Len(f) = 6
       /\ \A k \in 1..6 : f[k].err = NoError
       /\ f[6].cursor = Len(Flatten(fields))
       /\ f[1].value = Str(sent.topic)
       /\ f[2].value = Integer(0)
       /\ f[3].value.t = "object"
       /\ f[4].value = sent.payload
       /\ f[5].value = Integer(7)
       /\ f[6].value.t = "buffer"
       /\ parsed.done =>
            /\ parsed.err = NoError
            /\ parsed.topic = Str(sent.topic)
            /\ parsed.payload = sent.payload
            /\ parsed.headers = f[3].value
            /\ \A k \in 1..Len(sent.headers) :
                 \E j \in 1..Len(parsed.headers.kv) : parsed.headers.kv[j] = sent.headers[k]
            /\ \E j \in 1..Len(parsed.headers.kv) :
                 parsed.headers.kv[j] = <<TimestampKey, Integer(sent.now)>>
            /\ \E j \in 1..Len(parsed.headers.kv) :
                 parsed.headers.kv[j][1] = ByteLengthKey

C29_Witness ==
  /\ Untouched
  /\ parsed.done
  /\ parsed.err = NoError
  /\ sent.topic = <<116>>
  /\ sent.headers # <<>>
  /\ parsed.payload = Obj(<<<<<<97>>, Integer(1)>>>>)

\* The errors of decoding a frame
DecodeErrors ==
  {"ERR_END_OF_STREAM", "ERR_UNSUPPORTED_OPERATION", "ERR_JSON_PARSE", "ERR_ASSERTION",
   "ERR_INVALID_ARG_TYPE"}

\* C30: for every frame createMessage produced, changing the content of any
\* one of its fields (topic, encrypted flag, headers, payload, algorithm id,
\* signature) makes parseMessage raise ERR_INVALID_SIGNATURE or a decode
\* error; it never returns a result for the modified frame.
C30_TamperedFrameIsRejected ==
  (tampered # 0 /\ parsed.done) =>
    parsed.err \in {"ERR_INVALID_SIGNATURE"} \cup DecodeErrors

\* C31: parseMessage (given no encryption key) on a frame whose encrypted
\* flag is set and whose payload field decodes to binary raises
\* ERR_INVALID_ARGUMENT, whatever the algorithm id and the signature are
\* (no signature check comes first), and returns no topic, headers or
\* payload.
C31_MissingKeyIsInvalidArgument ==
  parsed.done =>
    LET f == DecodeFields(Flatten(fields), 0, 4)
    IN (Len(f) = 4 /\ f[4].err = NoError /\ f[2].value = Integer(1)
          /\ f[4].value.t = "buffer") =>
         parsed = Rejected("ERR_INVALID_ARGUMENT")

\* An encrypted frame whose signature was replaced is parsed without a key.
C31_Witness ==
  /\ parsed.done
  /\ sent.key
  /\ tampered = 6
  /\ parsed.err = "ERR_INVALID_ARGUMENT"
  /\ parsed.payload = Null

\* C32: a subscription registered with once: true is invoked at most once,
\* whatever emit calls are made, an emit of the same name made by a listener
\* while the first emit is still dispatching included.
C32_OnceInvokedAtMostOnce ==
  \A s \in regs : s.once => runs[s.callback] <= 1

\* The operations that drop every subscription of the dispatched name
Clearing == {"removeAllListeners", "removeManyListeners", "dispose"}

\* emit() returns: the step that takes its frame off the stack
Returns == Len(stack') < Len(stack) /\ during # <<>>

\* C33: when a listener called removeAllListeners, removeManyListeners for
\* the dispatched name or dispose while an emit was dispatching (and no
\* listener was added since that emit started), the emitter holds no
\* subscription for the name once the emit returns, so that a later emit of
\* the name finds no callback to invoke.
C33_ClearedDuringEmitStaysCleared ==
  [][(/\ Returns
      /\ during[Len(stack)] \cap Clearing # {}
      /\ "addListener" \notin during[Len(stack)]) =>
       (Top.name \notin DOMAIN listeners' \/ listeners'[Top.name] = <<>>)]_vars

\* The times a frame's loop ran the callback
RanTimes(f, callback) ==
  Cardinality({k \in 1..Len(f.log) : f.log[k].callback = callback /\ f.log[k].ran})

\* C34: when the only calls listeners made during an emit were removeListener
\* calls, every subscription that was registered when the emit started and
\* is still registered at the end of the loop was invoked exactly once by
\* that emit, and the removal after the loop leaves the array without
\* exactly the once-subscriptions the emit dispatched.
C34_RemoveDuringEmitSparesOthers ==
  [][(Returns /\ during[Len(stack)] = {"removeListener"}) =>
       LET f == Top
           arr == FrameArr(f)
       IN /\ \A k \in 1..Len(f.start) :
               (\E j \in 1..Len(arr) : arr[j] = f.start[k]) =>
                 RanTimes(f, f.start[k].callback) = 1
          /\ f.name \in DOMAIN listeners'
          /\ listeners'[f.name] =
               SelectSeq(arr, LAMBDA s : ~(s.once /\ RanTimes(f, s.callback) > 0))]_vars

\* C35: in every state the number of subscriptions of each event name is at
\* most maxListeners, whatever addListener, removeListener, setMaxListeners
\* and emit calls were made.
C35_SubscriptionsWithinMax ==
  \A n \in DOMAIN listeners : Len(listeners[n]) <= maxListeners

\* The emit() calls of a step that were made for the event
EmitsOf(event, emits) == Cardinality({k \in 1..Len(emits) : emits[k].event = event})

\* The drain closures still registered
PendingClosures(ls) ==
  IF "drain" \in DOMAIN ls
  THEN {k \in 1..Len(ls["drain"]) : IsClosure(ls["drain"][k].callback)}
  ELSE {}

\* C36: on a connection opened with connect, when the stream drains after
\* one or more refused writes (no drain in between), flushing becomes true,
\* the `flushing` event is emitted exactly once and no drain listener of
\* #write stays registered.
C36_DrainFlushesOnce ==
  [][(needDrain /\ ~needDrain' /\ kind = "outbound" /\ wired /\ ~sock.disposed) =>
       /\ sock'.flushing
       /\ EmitsOf("flushing", emitted') = 1
       /\ PendingClosures(listeners') = {}]_vars

\* C37: write and send on a connection that is not disposed return a
\* boolean: however many writes the stream refused in a row, the call
\* returns false and does not raise.
C37_WriteReturnsBoolean ==
  (last.op \in {"send", "write"} /\ ~sock.disposed) => last.res \in {"true", "false"}

\* C38: on a connection the server accepted, when the graceful shutdown that
\* close() started is over, the `close` event is emitted and the completion
\* callback raises nothing.
C38_AcceptedCloseCompletes ==
  (kind = "accepted" /\ ending = "done") =>
    (closeEmits >= 1 /\ ~uncaught /\ last.res # "TypeError")

\* C39: publishWebhookMessage over node:http hands the request the whole
\* message: for every length, once the loop is over the chunks written, put
\* together in order, are the bytes of the message, each byte once.
C39_PublishWritesWholeMessage ==
  pub.pc = "ended" => Flatten(pub.chunks) = pub.buffer

\* C40: once an event object is disposed its callback is not invoked any
\* more and results() is empty in every later state, also when a thenable
\* returned by a dispatch made before the dispose resolves afterwards.
C40_DisposedEventStaysEmpty ==
  [][/\ ev.disposed => ev'.invoked = ev.invoked
     /\ ev'.disposed => ev'.results = <<>>]_vars

====
